---- MODULE Spec2Model ----
(***************************************************************************)
(* Voice turn-taking of the MedBridge front end (src/static/app.js, the    *)
(* second, complete copy of the script: lines 779-1970).                    *)
(*                                                                         *)
(* Two voice loops, check-in and booking, run on one browser event loop.   *)
(* Every handler of the script is one atomic action (JavaScript runs a     *)
(* handler to completion); an async function is cut at its awaits.  The    *)
(* browser is the environment: the speechSynthesis queue (one per window,  *)
(* shared by both loops), the SpeechRecognition sessions, the timers and   *)
(* the requests in flight.                                                 *)
(*                                                                         *)
(* A handler is written as a function on a snapshot record of all          *)
(* variables, so that the calls a handler makes compose in program order.  *)
(***************************************************************************)
EXTENDS Naturals, Sequences, FiniteSets, Bags

\* ------------------------------------------------------------------ bounds
\* session set-ups submitted per loop in one run
MaxSetups == 1
\* cancelled utterances per loop whose report by the engine is still to come
\* (the engine reports nothing for a further one)
MaxCancelled == 1
\* recognition sessions per loop that exist and have not ended
MaxRecs == 2
\* pending setTimeout callbacks of one kind per loop
MaxTimers == 1
\* message requests of one loop awaiting a reply
MaxPending == 2
\* bubbles kept in one transcript log
MaxMsgs == 3
\* entries of the result list of one recognition session
MaxResults == 2
\* microphone-denied alerts shown in one run
MaxAlerts == 2
\* further session set-ups per loop after the first conversation
MaxAgain == 1

\* ------------------------------------------------------------------- texts
\* A text is a sequence of characters; " " is white space.
Typed == <<"t">>
Blank == <<" ">>
Greeting == <<"g">>
Reply == <<"r">>
CheckinApology == <<"E">>
BookingApology == <<"F">>
BookingCancelledNote == <<"c">>
CancelBubble == <<"x">>
CancelSpoken == <<"y">>
ConfirmedMsg == <<"k">>
Welcome == <<"w">>
Interim == <<"i">>
\* what the user may put into an input field
TypedTexts == {Typed}
\* what the engine may report as the transcript of one result entry
Segments == {<<"a">>}

\* s.startsWith(p)
StartsWith(s, p) == Len(p) <= Len(s) /\ SubSeq(s, 1, Len(p)) = p

\* s.split('-')[0]
SplitDash0(s) ==
    LET dashes == {i \in 1..Len(s) : SubSeq(s, i, i) = "-"}
    IN  IF dashes = {} THEN s
        ELSE SubSeq(s, 1, (CHOOSE i \in dashes : \A j \in dashes : i <= j) - 1)

\* SPEECH_LANG_MAP
SPEECH_LANG_MAP ==
    [en |-> "en-SG", zh |-> "zh-CN", ms |-> "ms-MY", ta |-> "ta-SG",
     zh_hokkien |-> "zh-CN", zh_teochew |-> "zh-CN", zh_cantonese |-> "zh-HK",
     zh_hakka |-> "zh-CN", zh_hainanese |-> "zh-CN", hi |-> "hi-IN",
     tl |-> "fil-PH", vi |-> "vi-VN", th |-> "th-TH", id |-> "id-ID",
     my |-> "my-MM", bn |-> "bn-BD", km |-> "km-KH", lo |-> "lo-LA"]

\* SPEECH_LANG_MAP[langCode] || 'en-SG'
SpeechLang(langCode) ==
    IF langCode \in DOMAIN SPEECH_LANG_MAP THEN SPEECH_LANG_MAP[langCode]
    ELSE "en-SG"

\* state.languages as the server sent it: the code of each language offered
\* (a field name stands for the code: zh_cantonese for 'zh-cantonese'); the
\* server offers a language the map has no entry for, and one without a code
LanguageCodes ==
    [English |-> "en", Cantonese |-> "zh_cantonese", Japanese |-> "ja",
     Other |-> ""]
Languages == DOMAIN LanguageCodes

\* (state.languages[language] || {}).code || 'en'
CodeOf(language) ==
    IF language \in Languages /\ LanguageCodes[language] # ""
    THEN LanguageCodes[language] ELSE "en"

\* the voice lists speechSynthesis.getVoices() may return once the engine
\* has loaded its voices: each voice is given by its lang
VoiceLists ==
    {<<"en-US", "en-SG">>, <<"en-SG", "en-US">>, <<"zh-CN", "zh-HK">>,
     <<"en-GB">>, <<"zh-HK", "en-SG">>}

\* Array.prototype.find over the langs of the voices, hits being the indexes
\* of the voices that pass the test; "" is undefined
Find(voices, hits) ==
    IF hits = {} THEN ""
    ELSE voices[CHOOSE i \in hits : \A j \in hits : i <= j]

\* the voice checkinSpeakThenListen picks: matched
matched(voices, bcp47) ==
    LET exact == Find(voices, {i \in 1..Len(voices) : voices[i] = bcp47})
    IN  IF exact # "" THEN exact
        ELSE Find(voices, {i \in 1..Len(voices) :
                              StartsWith(voices[i], SplitDash0(bcp47))})

\* the voice bookingSpeakThenListen picks: match
match(voices, bcp47) ==
    Find(voices, {i \in 1..Len(voices) :
                     StartsWith(voices[i], SplitDash0(bcp47))})

RECURSIVE TrimStart(_)
TrimStart(s) ==
    IF s = << >> THEN << >>
    ELSE IF Head(s) = " " THEN TrimStart(Tail(s)) ELSE s

RECURSIVE TrimEnd(_)
TrimEnd(s) ==
    IF s = << >> THEN << >>
    ELSE IF s[Len(s)] = " " THEN TrimEnd(SubSeq(s, 1, Len(s) - 1)) ELSE s

\* String.prototype.trim
Trim(s) == TrimEnd(TrimStart(s))

VARIABLES
    hasSynth,          \* 'speechSynthesis' in window
    hasRecog,          \* window.SpeechRecognition || window.webkitSpeechRecognition
    voices,            \* speechSynthesis.getVoices(): the lang of each voice
    language,          \* the value of #checkin-language and of
                       \* #booking-language, and the language constant of
                       \* the handleBookingSetup call that ran last
    currentView,       \* state.currentView
    checkinStep,       \* the active .checkin-step of the check-in view
    bookingStep,       \* the active step of the booking view
    spinner,           \* the spinner overlay is shown
    checkinState,      \* sessionId, langCode, isAutoMode, isSpeaking,
                       \* isListening
    checkinRec,        \* 0 = null, 1 = the recognizer created last (held)
    checkinUtterance,  \* 0 = null, 1 = the utterance created last
    bookingState,      \* bookingSessionId, langCode, isAutoMode, isSpeaking,
                       \* isListening
    bookingRec,        \* 0 = null, 1 = the recognizer created last (held)
    speechSynthesis,   \* the window's engine: its queue and what it cancelled
    checkinRecs,       \* recognition sessions created by the check-in loop
    bookingRecs,       \* recognition sessions created by the booking loop
    timers,            \* pending setTimeout callbacks
    fetches,           \* requests awaiting their reply, by kind
    checkinInput,      \* #checkin-input value
    checkinMessages,   \* #checkin-messages bubbles
    checkinBtnDisabled,\* btn-checkin-send and btn-send-to-doctor disabled
    checkinIndicator,  \* #checkin-voice-indicator: idle, speaking, listening
    bookingInput,      \* #booking-input value
    bookingMessages,   \* #booking-messages bubbles
    bookingIndicator,  \* #booking-voice-indicator is visible
    bookingBtnDisabled,\* btn-start-booking disabled
    setups,            \* session set-ups submitted so far, per loop
    micAlerts,         \* alert() dialogs shown for a denied microphone
    last               \* history: the handler that ran last (op) and the
                       \* reply, loop or view it ran for (arg)

vars == <<hasSynth, hasRecog, voices, language, currentView, checkinStep, bookingStep, spinner,
          checkinState, checkinRec, checkinUtterance, bookingState, bookingRec,
          speechSynthesis, checkinRecs, bookingRecs, timers, fetches,
          checkinInput, checkinMessages, checkinBtnDisabled, checkinIndicator,
          bookingInput, bookingMessages, bookingIndicator, bookingBtnDisabled,
          setups, micAlerts, last>>

\* ------------------------------------------------------- snapshot / commit
\* ok turns FALSE when a handler would exceed a bound of the model; such a
\* step is not taken.
Cur ==
    [ok |-> TRUE,
     hasSynth |-> hasSynth, hasRecog |-> hasRecog,
     voices |-> voices, language |-> language,
     currentView |-> currentView, checkinStep |-> checkinStep,
     bookingStep |-> bookingStep, spinner |-> spinner,
     checkinState |-> checkinState, checkinRec |-> checkinRec,
     checkinUtterance |-> checkinUtterance,
     bookingState |-> bookingState, bookingRec |-> bookingRec,
     speechSynthesis |-> speechSynthesis, checkinRecs |-> checkinRecs, bookingRecs |-> bookingRecs,
     timers |-> timers, fetches |-> fetches,
     checkinInput |-> checkinInput, checkinMessages |-> checkinMessages,
     checkinBtnDisabled |-> checkinBtnDisabled,
     checkinIndicator |-> checkinIndicator,
     bookingInput |-> bookingInput, bookingMessages |-> bookingMessages,
     bookingIndicator |-> bookingIndicator,
     bookingBtnDisabled |-> bookingBtnDisabled,
     setups |-> setups, micAlerts |-> micAlerts, last |-> last]

Commit(t) ==
    /\ t.ok
    /\ hasSynth' = t.hasSynth
    /\ hasRecog' = t.hasRecog
    /\ voices' = t.voices
    /\ language' = t.language
    /\ currentView' = t.currentView
    /\ checkinStep' = t.checkinStep
    /\ bookingStep' = t.bookingStep
    /\ spinner' = t.spinner
    /\ checkinState' = t.checkinState
    /\ checkinRec' = t.checkinRec
    /\ checkinUtterance' = t.checkinUtterance
    /\ bookingState' = t.bookingState
    /\ bookingRec' = t.bookingRec
    /\ speechSynthesis' = t.speechSynthesis
    /\ checkinRecs' = t.checkinRecs
    /\ bookingRecs' = t.bookingRecs
    /\ timers' = t.timers
    /\ fetches' = t.fetches
    /\ checkinInput' = t.checkinInput
    /\ checkinMessages' = t.checkinMessages
    /\ checkinBtnDisabled' = t.checkinBtnDisabled
    /\ checkinIndicator' = t.checkinIndicator
    /\ bookingInput' = t.bookingInput
    /\ bookingMessages' = t.bookingMessages
    /\ bookingIndicator' = t.bookingIndicator
    /\ bookingBtnDisabled' = t.bookingBtnDisabled
    /\ setups' = t.setups
    /\ micAlerts' = t.micAlerts
    /\ last' = t.last

\* the step of handler name, run for arg, that leaves the snapshot t
Step(name, arg, t) == Commit([t EXCEPT !.last = [op |-> name, arg |-> arg]])

\* --------------------------------------------------- the browser's engines
\* speechSynthesis.queue: the utterances handed to speak() and not yet ended,
\* the first one being spoken once its st is "speaking".
\* speechSynthesis.cancelled[loop]: utterances of that loop removed by
\* cancel() for which the engine has not yet reported anything.
Loops == {"checkin", "booking"}

\* an utterance: lang is utterance.lang, voice the lang of utterance.voice
\* ("" when the engine is left to choose)
Utterance(loop, text, st, lang, voice) ==
    [loop |-> loop, text |-> text, st |-> st, lang |-> lang, voice |-> voice]

RECURSIVE CountLoop(_, _)
CountLoop(queue, loop) ==
    IF queue = << >> THEN 0
    ELSE (IF Head(queue).loop = loop THEN 1 ELSE 0) + CountLoop(Tail(queue), loop)

MinOf(a, b) == IF a <= b THEN a ELSE b

\* speechSynthesis.cancel(): every utterance of the window's queue is removed,
\* whichever loop queued it; the engine reports it later (or never).
synthCancel(t) ==
    [t EXCEPT !.speechSynthesis =
        [queue |-> << >>,
         cancelled |-> [l \in Loops |->
            MinOf(MaxCancelled,
                  @.cancelled[l] + CountLoop(@.queue, l))]]]

\* speechSynthesis.speak(utterance)
synthSpeak(t, utterance) ==
    [t EXCEPT !.speechSynthesis.queue = Append(@, utterance)]

\* A recognition session: an object the engine still owes events.
\* held: the loop's variable (checkinRec, bookingRec) refers to it.
\* st: starting (start() called), active, stopping (stop() called),
\*     errored (error fired, end still to come).
\* finalTranscript: the closure variable of its handlers.
\* results: the engine's result list of the session.
\* lang: rec.lang.
NewRec(st, lang) ==
    [held |-> TRUE, st |-> st, results |-> << >>, finalTranscript |-> << >>,
     lang |-> lang]

BagAdd(b, e) == b (+) SetToBag({e})
BagDel(b, e) == b (-) SetToBag({e})

\* rec.stop() on the session held, then the variable is set to null
stopHeld(r) ==
    [r EXCEPT !.held = FALSE,
              !.st = IF r.held /\ @ \in {"starting", "active"}
                     THEN "stopping" ELSE @]
recStopAndRelease(recs) == BagOfAll(stopHeld, recs)

\* the variable is set to null
unhold(r) == [r EXCEPT !.held = FALSE]
recRelease(recs) == BagOfAll(unhold, recs)

AppendMsg(msgs, role, text) == Append(msgs, [role |-> role, text |-> text])

addListenTimer(t, loop) ==
    IF t.timers[loop].listen >= MaxTimers THEN [t EXCEPT !.ok = FALSE]
    ELSE [t EXCEPT !.timers[loop].listen = @ + 1]

addSendTimer(t, loop, text) ==
    IF Len(t.timers[loop].send) >= MaxTimers THEN [t EXCEPT !.ok = FALSE]
    ELSE [t EXCEPT !.timers[loop].send = Append(@, text)]

addFetch(t, kind, max) ==
    IF t.fetches[kind] >= max THEN [t EXCEPT !.ok = FALSE]
    ELSE [t EXCEPT !.fetches[kind] = @ + 1]

\* ------------------------------------------------------------ view helpers
\* showCheckinStep clears 'active' on every .checkin-step of the document,
\* the booking view's steps included, then shows the step asked for.
showCheckinStep(t, step) ==
    [t EXCEPT !.checkinStep = step, !.bookingStep = "none"]

showBookingStep(t, step) == [t EXCEPT !.bookingStep = step]

setCheckinVoiceIndicator(t, v) == [t EXCEPT !.checkinIndicator = v]

appendCheckinBubble(t, role, text) ==
    IF Len(t.checkinMessages) >= MaxMsgs THEN [t EXCEPT !.ok = FALSE]
    ELSE [t EXCEPT !.checkinMessages = AppendMsg(@, role, text)]

appendBookingBubble(t, role, text) ==
    IF Len(t.bookingMessages) >= MaxMsgs THEN [t EXCEPT !.ok = FALSE]
    ELSE [t EXCEPT !.bookingMessages = AppendMsg(@, role, text)]

\* ------------------------------------------------ check-in: speech output
\* stopCheckinSpeaking leaving checkinUtterance as it is
stopCheckinSpeakingKeepsHandle(t) ==
    LET t1 == IF t.hasSynth THEN synthCancel(t) ELSE t
    IN  [t1 EXCEPT !.checkinState.isSpeaking = FALSE]

stopCheckinSpeaking(t) ==
    LET t1 == IF t.hasSynth THEN synthCancel(t) ELSE t
    IN  [t1 EXCEPT !.checkinState.isSpeaking = FALSE, !.checkinUtterance = 0]

stopCheckinVoice(t) ==
    LET t1 == [t EXCEPT !.checkinState.isListening = FALSE]
        t2 == IF t1.checkinRec # 0
              THEN [t1 EXCEPT !.checkinRecs = recStopAndRelease(@),
                              !.checkinRec = 0]
              ELSE t1
    IN  setCheckinVoiceIndicator(t2, "idle")

\* stopCheckinVoice with the exception of checkinRec.stop() leaving the
\* function: what follows the call is not run
stopCheckinVoiceThrowsUncaught(t) ==
    [t EXCEPT !.checkinState.isListening = FALSE]

\* stopCheckinVoice when checkinRec.stop() throws: the catch ignores the
\* exception, and the session goes on as it was
stopCheckinVoiceThrows(t) ==
    LET t1 == [t EXCEPT !.checkinState.isListening = FALSE]
        t2 == IF t1.checkinRec # 0
              THEN [t1 EXCEPT !.checkinRecs = recRelease(@),
                              !.checkinRec = 0]
              ELSE t1
    IN  setCheckinVoiceIndicator(t2, "idle")

checkinSpeakThenListen(t, text) ==
    IF ~t.hasSynth THEN t
    ELSE LET t1 == stopCheckinVoice(stopCheckinSpeaking(t))
             t2 == setCheckinVoiceIndicator(t1, "speaking")
             bcp47 == SpeechLang(t.checkinState.langCode)
         IN  [synthSpeak(t2, Utterance("checkin", text, "speaking", bcp47,
                                       matched(t.voices, bcp47)))
                EXCEPT !.checkinUtterance = 1,
                       !.checkinState.isSpeaking = TRUE]

\* utterance.onend leaving the microphone alone
checkinUtteranceOnendNoListen(t) ==
    setCheckinVoiceIndicator(
        [t EXCEPT !.checkinState.isSpeaking = FALSE, !.checkinUtterance = 0],
        "idle")

\* utterance.onend
checkinUtteranceOnend(t) ==
    LET t1 == [t EXCEPT !.checkinState.isSpeaking = FALSE,
                        !.checkinUtterance = 0]
    IN  IF t1.checkinState.isAutoMode
        THEN addListenTimer(setCheckinVoiceIndicator(t1, "idle"), "checkin")
        ELSE setCheckinVoiceIndicator(t1, "idle")

\* utterance.onerror
checkinUtteranceOnerror(t) ==
    setCheckinVoiceIndicator(
        [t EXCEPT !.checkinState.isSpeaking = FALSE, !.checkinUtterance = 0],
        "idle")

\* ------------------------------------------------- check-in: speech input
\* startCheckinListening leaving isListening to an onstart handler, as the
\* booking loop does
startCheckinListeningFlagLater(t) ==
    IF ~t.hasRecog \/ t.checkinState.isListening THEN t
    ELSE LET t1 == stopCheckinVoice(t)
         IN  IF BagCardinality(t1.checkinRecs) >= MaxRecs
             THEN [t1 EXCEPT !.ok = FALSE]
             ELSE setCheckinVoiceIndicator(
                    [t1 EXCEPT !.checkinRecs =
                                   BagAdd(@, NewRec("active",
                                       SpeechLang(t.checkinState.langCode))),
                               !.checkinRec = 1],
                    "listening")

startCheckinListening(t) ==
    IF ~t.hasRecog \/ t.checkinState.isListening THEN t
    ELSE LET t1 == stopCheckinVoice(t)
         IN  IF BagCardinality(t1.checkinRecs) >= MaxRecs
             THEN [t1 EXCEPT !.ok = FALSE]
             ELSE setCheckinVoiceIndicator(
                    [t1 EXCEPT !.checkinRecs =
                                   BagAdd(@, NewRec("active",
                                       SpeechLang(t.checkinState.langCode))),
                               !.checkinState.isListening = TRUE,
                               !.checkinRec = 1],
                    "listening")

\* startCheckinListening when rec.start() throws: the catch logs the error,
\* and the engine has no session that would fire an event
startCheckinListeningThrows(t) ==
    IF ~t.hasRecog \/ t.checkinState.isListening THEN t
    ELSE setCheckinVoiceIndicator(
           [stopCheckinVoice(t) EXCEPT !.checkinState.isListening = TRUE,
                                       !.checkinRec = 1],
           "listening")

\* the transcripts of the entries of a result list, final ones or interim ones
RECURSIVE Concat(_, _)
Concat(rs, final) ==
    IF rs = << >> THEN << >>
    ELSE (IF Head(rs).isFinal = final THEN Head(rs).transcript ELSE << >>)
         \o Concat(Tail(rs), final)

\* the entries event.results[event.resultIndex ..] of a result event
EventTail(results, resultIndex) == SubSeq(results, resultIndex + 1, Len(results))

\* rec.onresult adding every entry to finalTranscript, final or not
checkinRecOnresultAllFinal(t, r, results, resultIndex) ==
    LET finalTranscript == Concat(EventTail(results, resultIndex), TRUE)
                              \o Concat(EventTail(results, resultIndex), FALSE)
    IN  [t EXCEPT !.checkinRecs =
                      BagAdd(BagDel(@, r),
                             [r EXCEPT !.finalTranscript = finalTranscript,
                                       !.results = results]),
                  !.checkinInput = finalTranscript]

\* rec.onresult of session r, for an event whose result list is results and
\* whose first changed entry is resultIndex (from 0)
checkinRecOnresult(t, r, results, resultIndex) ==
    LET finalTranscript == Concat(EventTail(results, resultIndex), TRUE)
        interim == Concat(EventTail(results, resultIndex), FALSE)
    IN  [t EXCEPT !.checkinRecs =
                      BagAdd(BagDel(@, r),
                             [r EXCEPT !.finalTranscript = finalTranscript,
                                       !.results = results]),
                  !.checkinInput = finalTranscript \o interim]

\* rec.onend submitting what the input field shows, interim text included
checkinRecOnendSendsField(t, r) ==
    LET t1 == setCheckinVoiceIndicator(
                [t EXCEPT !.checkinState.isListening = FALSE,
                          !.checkinRec = 0,
                          !.checkinRecs = recRelease(BagDel(@, r))],
                "idle")
    IN  IF Trim(t.checkinInput) # << >> /\ t1.checkinState.isAutoMode
        THEN addSendTimer(t1, "checkin", Trim(t.checkinInput))
        ELSE t1

\* rec.onend of session r, which is then gone
checkinRecOnend(t, r) ==
    LET t1 == setCheckinVoiceIndicator(
                [t EXCEPT !.checkinState.isListening = FALSE,
                          !.checkinRec = 0,
                          !.checkinRecs = recRelease(BagDel(@, r))],
                "idle")
    IN  IF Trim(r.finalTranscript) # << >> /\ t1.checkinState.isAutoMode
        THEN addSendTimer(t1, "checkin", Trim(r.finalTranscript))
        ELSE t1

\* alert('Microphone access was denied. ...') when the error is not-allowed
alertMicDenied(t, error) ==
    IF error # "not-allowed" THEN t
    ELSE IF t.micAlerts >= MaxAlerts THEN [t EXCEPT !.ok = FALSE]
    ELSE [t EXCEPT !.micAlerts = @ + 1]

\* rec.onerror retrying after the settle delay when AutoMode is on
checkinRecOnerrorRetry(t, r, error) ==
    LET t1 == setCheckinVoiceIndicator(
                [alertMicDenied(t, error)
                   EXCEPT !.checkinState.isListening = FALSE,
                          !.checkinRec = 0,
                          !.checkinRecs =
                              recRelease(BagAdd(BagDel(@, r),
                                                [r EXCEPT !.st = "errored"]))],
                "idle")
    IN  IF t1.checkinState.isAutoMode THEN addListenTimer(t1, "checkin")
        ELSE t1

\* rec.onerror of session r with event.error = error; the engine fires end
\* after error
checkinRecOnerror(t, r, error) ==
    setCheckinVoiceIndicator(
        [alertMicDenied(t, error)
           EXCEPT !.checkinState.isListening = FALSE,
                  !.checkinRec = 0,
                  !.checkinRecs =
                      recRelease(BagAdd(BagDel(@, r),
                                        [r EXCEPT !.st = "errored"]))],
        "idle")

toggleCheckinVoice(t) ==
    IF t.checkinState.isListening THEN stopCheckinVoice(t)
    ELSE startCheckinListening(stopCheckinSpeaking(t))

toggleAutoMode(t) ==
    LET t1 == [t EXCEPT !.checkinState.isAutoMode = ~@]
    IN  IF ~t1.checkinState.isAutoMode
        THEN stopCheckinVoice(stopCheckinSpeaking(t1))
        ELSE t1

\* --------------------------------------------------- check-in: messaging
\* sendCheckinMessage up to its await of fetch, without the test of
\* checkinState.sessionId
sendCheckinMessageNoSessionTest(t, hasOverride, textOverride) ==
    LET text == Trim(IF hasOverride THEN textOverride ELSE t.checkinInput)
    IN  IF text = << >> THEN t
        ELSE addFetch(
               [appendCheckinBubble([t EXCEPT !.checkinInput = << >>],
                                    "user", text)
                  EXCEPT !.checkinBtnDisabled = TRUE],
               "checkinMsg", MaxPending)

\* sendCheckinMessage up to its await of fetch
sendCheckinMessage(t, hasOverride, textOverride) ==
    LET text == Trim(IF hasOverride THEN textOverride ELSE t.checkinInput)
    IN  IF text = << >> \/ t.checkinState.sessionId = 0 THEN t
        ELSE addFetch(
               [appendCheckinBubble([t EXCEPT !.checkinInput = << >>],
                                    "user", text)
                  EXCEPT !.checkinBtnDisabled = TRUE],
               "checkinMsg", MaxPending)

\* sendCheckinMessage from the reply on, enabling the controls at the end of
\* the try block only
sendCheckinMessageReplyEnablesInTry(t, outcome) ==
    LET t0 == [t EXCEPT !.fetches.checkinMsg = @ - 1]
        reply == IF outcome = "ok" THEN Reply ELSE << >>
    IN  IF outcome = "reject"
        THEN appendCheckinBubble(t0, "assistant", CheckinApology)
        ELSE LET t2 == appendCheckinBubble(t0, "assistant", reply)
                 t3 == IF t2.checkinState.isAutoMode
                       THEN checkinSpeakThenListen(t2, reply)
                       ELSE t2
             IN  [t3 EXCEPT !.checkinBtnDisabled = FALSE]

\* sendCheckinMessage from the reply on. outcome: "ok" a reply, "errorJson" an
\* error status with a JSON body (data.reply is undefined, shown and spoken as
\* the empty text), "reject" fetch or res.json() rejects.
sendCheckinMessageReply(t, outcome) ==
    LET t0 == [t EXCEPT !.fetches.checkinMsg = @ - 1]
        reply == IF outcome = "ok" THEN Reply ELSE << >>
        t1 == IF outcome = "reject"
              THEN appendCheckinBubble(t0, "assistant", CheckinApology)
              ELSE LET t2 == appendCheckinBubble(t0, "assistant", reply)
                   IN  IF t2.checkinState.isAutoMode
                       THEN checkinSpeakThenListen(t2, reply)
                       ELSE t2
    IN  [t1 EXCEPT !.checkinBtnDisabled = FALSE]

handleCheckinKey(t) == sendCheckinMessage(stopCheckinVoice(t), FALSE, << >>)

\* handleCheckinKey when checkinRec.stop() throws
handleCheckinKeyStopThrows(t) ==
    sendCheckinMessage(stopCheckinVoiceThrows(t), FALSE, << >>)

\* handleCheckinSetup up to its first await
handleCheckinSetup(t) ==
    addFetch([t EXCEPT !.checkinState.langCode = CodeOf(t.language.checkin),
                       !.checkinState.isAutoMode = TRUE, !.spinner = TRUE,
                       !.setups.checkin = @ + 1],
             "checkinSetup", 1)

\* handleCheckinSetup after both requests. outcome: "ok", "errorJson" (the
\* session request answers an error body: session_id and greeting undefined),
\* "reject"
handleCheckinSetupReply(t, outcome) ==
    LET t0 == [t EXCEPT !.fetches.checkinSetup = @ - 1]
    IN  IF outcome = "reject" THEN [t0 EXCEPT !.spinner = FALSE]
        ELSE LET greeting == IF outcome = "ok" THEN Greeting ELSE << >>
                 t1 == [t0 EXCEPT !.checkinState.sessionId =
                                      IF outcome = "ok" THEN 1 ELSE 0,
                                  !.checkinMessages = << >>,
                                  !.checkinInput = << >>,
                                  !.spinner = FALSE]
                 t2 == appendCheckinBubble(showCheckinStep(t1, "chat"),
                                           "assistant", greeting)
             IN  IF t2.checkinState.isAutoMode
                 THEN checkinSpeakThenListen(t2, greeting)
                 ELSE t2

backToCheckinSetup(t) ==
    showCheckinStep(
        [stopCheckinVoice(stopCheckinSpeaking(t))
           EXCEPT !.checkinState.sessionId = 0],
        "setup")

\* completeCheckin up to its await (the user confirmed the dialog)
completeCheckin(t) ==
    IF t.checkinState.sessionId = 0 THEN t
    ELSE addFetch([stopCheckinVoice(stopCheckinSpeaking(t))
                     EXCEPT !.spinner = TRUE],
                  "checkinComplete", 1)

completeCheckinReply(t, ok) ==
    LET t0 == [t EXCEPT !.fetches.checkinComplete = @ - 1, !.spinner = FALSE]
    IN  IF ok THEN showCheckinStep(t0, "summary") ELSE t0

\* -------------------------------------------------- booking: speech output
stopBookingSpeaking(t) ==
    LET t1 == IF t.hasSynth THEN synthCancel(t) ELSE t
    IN  [t1 EXCEPT !.bookingState.isSpeaking = FALSE,
                   !.bookingIndicator = FALSE]

stopBookingVoice(t) ==
    LET t1 == IF t.bookingRec # 0
              THEN [t EXCEPT !.bookingRecs = recStopAndRelease(@),
                             !.bookingRec = 0]
              ELSE t
    IN  [t1 EXCEPT !.bookingState.isListening = FALSE,
                   !.bookingIndicator = FALSE]

\* stopBookingVoice when bookingRec.stop() throws: the catch ignores the
\* exception, and the session goes on as it was
stopBookingVoiceThrows(t) ==
    LET t1 == IF t.bookingRec # 0
              THEN [t EXCEPT !.bookingRecs = recRelease(@),
                             !.bookingRec = 0]
              ELSE t
    IN  [t1 EXCEPT !.bookingState.isListening = FALSE,
                   !.bookingIndicator = FALSE]

bookingSpeakThenListen(t, text) ==
    LET t1 == stopBookingSpeaking(t)
    IN  IF ~t1.hasSynth
        THEN IF t1.bookingState.isAutoMode
             THEN addListenTimer(t1, "booking")
             ELSE t1
        ELSE LET bcp47 == SpeechLang(t.bookingState.langCode)
             IN  synthSpeak(t1, Utterance("booking", text, "queued", bcp47,
                                          match(t.voices, bcp47)))

\* bookingUtterance.onstart
bookingUtteranceOnstart(t) ==
    [t EXCEPT !.bookingState.isSpeaking = TRUE, !.bookingIndicator = TRUE]

\* bookingUtterance.onend
bookingUtteranceOnend(t) ==
    LET t1 == [t EXCEPT !.bookingState.isSpeaking = FALSE,
                        !.bookingIndicator = FALSE]
    IN  IF t1.bookingState.isAutoMode
        THEN addListenTimer(t1, "booking")
        ELSE t1

\* bookingUtterance.onerror
bookingUtteranceOnerror(t) ==
    [t EXCEPT !.bookingState.isSpeaking = FALSE, !.bookingIndicator = FALSE]

\* --------------------------------------------------- booking: speech input
\* startBookingListening with the locale of the language the booking session
\* was set up in
startBookingListeningSetupLocale(t) ==
    IF ~t.hasRecog THEN t
    ELSE IF t.bookingState.isListening THEN t
    ELSE LET t1 == stopBookingVoice(t)
         IN  IF BagCardinality(t1.bookingRecs) >= MaxRecs
             THEN [t1 EXCEPT !.ok = FALSE]
             ELSE [t1 EXCEPT !.bookingRecs =
                                 BagAdd(@, NewRec("starting",
                                     SpeechLang(CodeOf(t.language.submitted)))),
                             !.bookingRec = 1]

startBookingListening(t) ==
    IF ~t.hasRecog THEN t
    ELSE IF t.bookingState.isListening THEN t
    ELSE LET t1 == stopBookingVoice(t)
         IN  IF BagCardinality(t1.bookingRecs) >= MaxRecs
             THEN [t1 EXCEPT !.ok = FALSE]
             ELSE [t1 EXCEPT !.bookingRecs =
                                 BagAdd(@, NewRec("starting",
                                     SpeechLang(t.bookingState.langCode))),
                             !.bookingRec = 1]

\* startBookingListening when bookingRec.start() throws: the exception leaves
\* the function, and the engine has no session that would fire an event
startBookingListeningThrows(t) ==
    IF ~t.hasRecog THEN t
    ELSE IF t.bookingState.isListening THEN t
    ELSE [stopBookingVoice(t) EXCEPT !.bookingRec = 1]

\* bookingRec.onstart of session r
bookingRecOnstart(t, r) ==
    [t EXCEPT !.bookingState.isListening = TRUE,
              !.bookingIndicator = TRUE,
              !.bookingRecs = BagAdd(BagDel(@, r), [r EXCEPT !.st = "active"])]

\* bookingRec.onresult of session r
bookingRecOnresult(t, r, results, resultIndex) ==
    LET finalTranscript == Concat(EventTail(results, resultIndex), TRUE)
        interim == Concat(EventTail(results, resultIndex), FALSE)
    IN  [t EXCEPT !.bookingRecs =
                      BagAdd(BagDel(@, r),
                             [r EXCEPT !.finalTranscript = finalTranscript,
                                       !.results = results]),
                  !.bookingInput = IF finalTranscript # << >>
                                   THEN finalTranscript ELSE interim]

\* bookingRec.onend of session r, which is then gone; bookingRec keeps
\* referring to the ended object
bookingRecOnend(t, r) ==
    LET t1 == [t EXCEPT !.bookingState.isListening = FALSE,
                        !.bookingIndicator = FALSE,
                        !.bookingRecs = BagDel(@, r)]
    IN  IF t1.bookingState.isAutoMode /\ Trim(r.finalTranscript) # << >>
        THEN addSendTimer(t1, "booking", Trim(r.finalTranscript))
        ELSE t1

\* bookingRec.onerror of session r with e.error = error; the engine fires end
\* after error
bookingRecOnerror(t, r, error) ==
    alertMicDenied(
        [t EXCEPT !.bookingState.isListening = FALSE,
                  !.bookingIndicator = FALSE,
                  !.bookingRecs =
                      BagAdd(BagDel(@, r), [r EXCEPT !.st = "errored"])],
        error)

toggleBookingVoice(t) ==
    IF t.bookingState.isListening THEN stopBookingVoice(t)
    ELSE startBookingListening(t)

toggleBookingAutoMode(t) == [t EXCEPT !.bookingState.isAutoMode = ~@]

\* ----------------------------------------------------- booking: messaging
showBookingConfirmed(t) ==
    bookingSpeakThenListen(
        showBookingStep(stopBookingVoice(stopBookingSpeaking(t)), "confirmed"),
        ConfirmedMsg)

\* sendBookingMessage up to its await of fetch
sendBookingMessage(t, hasOverride, overrideText) ==
    LET text == Trim(IF hasOverride THEN overrideText ELSE t.bookingInput)
    IN  IF text = << >> \/ t.bookingState.bookingSessionId = 0 THEN t
        ELSE addFetch(
               appendBookingBubble(
                   stopBookingVoice([t EXCEPT !.bookingInput = << >>]),
                   "user", text),
               "bookingMsg", MaxPending)

\* sendBookingMessage up to its await of fetch when bookingRec.stop() throws
sendBookingMessageStopThrows(t, hasOverride, overrideText) ==
    LET text == Trim(IF hasOverride THEN overrideText ELSE t.bookingInput)
    IN  IF text = << >> \/ t.bookingState.bookingSessionId = 0 THEN t
        ELSE addFetch(
               appendBookingBubble(
                   stopBookingVoiceThrows([t EXCEPT !.bookingInput = << >>]),
                   "user", text),
               "bookingMsg", MaxPending)

\* sendBookingMessage from the reply on. outcome: "ok" (data.state is neither
\* confirmed nor cancelled), "confirmed", "cancelled", "errorJson" (an error
\* status with a JSON body: response_text and state undefined), "reject"
sendBookingMessageReply(t, outcome) ==
    LET t0 == [t EXCEPT !.fetches.bookingMsg = @ - 1]
        text == IF outcome = "errorJson" THEN << >> ELSE Reply
        t1 == appendBookingBubble(t0, "assistant", text)
    IN  IF outcome = "reject"
        THEN appendBookingBubble(t0, "assistant", BookingApology)
        ELSE IF outcome = "confirmed" THEN showBookingConfirmed(t1)
        ELSE IF outcome = "cancelled"
        THEN appendBookingBubble(t1, "assistant", BookingCancelledNote)
        ELSE bookingSpeakThenListen(t1, text)

handleBookingKey(t) == sendBookingMessage(t, FALSE, << >>)

\* handleBookingSetup up to its await
handleBookingSetup(t) ==
    addFetch([t EXCEPT !.language.submitted = t.language.booking,
                       !.bookingBtnDisabled = TRUE, !.setups.booking = @ + 1],
             "bookingSetup", 1)

\* handleBookingSetup from the reply on. outcome: "ok", "errorJson" (res.ok is
\* false), "reject"
handleBookingSetupReply(t, outcome) ==
    LET t0 == [t EXCEPT !.fetches.bookingSetup = @ - 1,
                        !.bookingBtnDisabled = FALSE]
    IN  IF outcome # "ok" THEN t0
        ELSE bookingSpeakThenListen(
               appendBookingBubble(
                   showBookingStep(
                       [t0 EXCEPT !.bookingState.bookingSessionId = 1,
                                  !.bookingState.langCode =
                                      CodeOf(t.language.submitted),
                                  !.bookingMessages = << >>],
                       "chat"),
                   "assistant", Welcome),
               Welcome)

\* updateBookingDialects, the change handler of #booking-language, after the
\* user chose a language
updateBookingDialects(t) ==
    [t EXCEPT !.bookingState.langCode = CodeOf(t.language.booking)]

backToBookingSetup(t) ==
    showBookingStep(stopBookingVoice(stopBookingSpeaking(t)), "setup")

\* confirmBooking up to its await
confirmBooking(t) ==
    IF t.bookingState.bookingSessionId = 0 THEN t
    ELSE addFetch(t, "bookingConfirm", 1)

confirmBookingReply(t, ok) ==
    LET t0 == [t EXCEPT !.fetches.bookingConfirm = @ - 1]
    IN  IF ok THEN showBookingConfirmed(t0) ELSE t0

\* cancelBookingSession up to its await
cancelBookingSession(t) ==
    IF t.bookingState.bookingSessionId = 0 THEN t
    ELSE addFetch(t, "bookingCancel", 1)

\* cancelBookingSession after its await; a rejected fetch ends the function
cancelBookingSessionReply(t, ok) ==
    LET t0 == [t EXCEPT !.fetches.bookingCancel = @ - 1]
    IN  IF ok
        THEN bookingSpeakThenListen(
               appendBookingBubble(t0, "assistant", CancelBubble),
               CancelSpoken)
        ELSE t0

\* ------------------------------------------------------------- navigation
\* navigateTo stopping the check-in loop only
navigateToCheckinOnly(t, view) ==
    LET t1 == [t EXCEPT !.currentView = view]
        t2 == IF view = "checkin" THEN showCheckinStep(t1, "setup") ELSE t1
        t3 == IF view = "booking" THEN showBookingStep(t2, "setup") ELSE t2
    IN  stopCheckinVoice(stopCheckinSpeaking(t3))

navigateTo(t, view) ==
    LET t1 == [t EXCEPT !.currentView = view]
        t2 == IF view = "checkin" THEN showCheckinStep(t1, "setup") ELSE t1
        t3 == IF view = "booking" THEN showBookingStep(t2, "setup") ELSE t2
    IN  stopBookingVoice(stopBookingSpeaking(
            stopCheckinVoice(stopCheckinSpeaking(t3))))

\* ------------------------------------------------------------------- Init
\* the doctor view behaves as the home view does for the voice loops
Views == {"home", "checkin", "booking"}
FetchKinds == {"checkinSetup", "checkinMsg", "checkinComplete",
               "bookingSetup", "bookingMsg", "bookingConfirm", "bookingCancel"}

Init ==
    /\ hasSynth \in BOOLEAN
    /\ hasRecog \in BOOLEAN
    /\ currentView = "home"
    /\ checkinStep = "setup"
    /\ bookingStep = "setup"
    /\ spinner = FALSE
    /\ voices = << >>
    \* getVoices() returns the empty list until the voices are loaded;
    \* English is the option selected in both language selects
    /\ language = [checkin |-> "English", booking |-> "English",
                   submitted |-> "English"]
    /\ checkinState = [sessionId |-> 0, langCode |-> "en", isAutoMode |-> TRUE,
                       isSpeaking |-> FALSE, isListening |-> FALSE]
    /\ checkinRec = 0
    /\ checkinUtterance = 0
    /\ bookingState = [bookingSessionId |-> 0, langCode |-> "en",
                       isAutoMode |-> TRUE,
                       isSpeaking |-> FALSE, isListening |-> FALSE]
    /\ bookingRec = 0
    /\ speechSynthesis = [queue |-> << >>, cancelled |-> [l \in Loops |-> 0]]
    /\ checkinRecs = EmptyBag
    /\ bookingRecs = EmptyBag
    /\ timers = [l \in Loops |-> [listen |-> 0, send |-> << >>]]
    /\ fetches = [k \in FetchKinds |-> 0]
    /\ checkinInput = << >>
    /\ checkinMessages = << >>
    /\ checkinBtnDisabled = FALSE
    /\ checkinIndicator = "idle"
    /\ bookingInput = << >>
    /\ bookingMessages = << >>
    /\ bookingIndicator = FALSE
    /\ bookingBtnDisabled = FALSE
    /\ setups = [l \in Loops |-> 0]
    /\ micAlerts = 0
    /\ last = [op |-> "Init", arg |-> ""]

\* ----------------------------------------------------------- user actions
\* What the user can reach: the controls of the visible step of the visible
\* view, and nothing while the spinner overlay is up.
InCheckinSetup == currentView = "checkin" /\ checkinStep = "setup" /\ ~spinner
InCheckinChat == currentView = "checkin" /\ checkinStep = "chat" /\ ~spinner
InCheckinSummary == currentView = "checkin" /\ checkinStep = "summary" /\ ~spinner
InBookingSetup == currentView = "booking" /\ bookingStep = "setup" /\ ~spinner
InBookingChat == currentView = "booking" /\ bookingStep = "chat" /\ ~spinner
InBookingConfirmed ==
    currentView = "booking" /\ bookingStep = "confirmed" /\ ~spinner

NavigateTo(view) ==
    /\ ~spinner
    /\ Step("NavigateTo", view, navigateTo(Cur, view))

HandleCheckinSetup ==
    /\ InCheckinSetup
    /\ setups.checkin < MaxSetups
    /\ Step("HandleCheckinSetup", "", handleCheckinSetup(Cur))

BackToCheckinSetup ==
    /\ InCheckinChat \/ InCheckinSummary
    /\ Step("BackToCheckinSetup", "", backToCheckinSetup(Cur))

TypeCheckinInput(text) ==
    /\ InCheckinChat
    /\ text # checkinInput
    /\ Step("TypeCheckinInput", "", [Cur EXCEPT !.checkinInput = text])

ClickCheckinSend ==
    /\ InCheckinChat
    /\ ~checkinBtnDisabled
    /\ Step("ClickCheckinSend", "", sendCheckinMessage(Cur, FALSE, << >>))

HandleCheckinKey ==
    /\ InCheckinChat
    /\ Step("HandleCheckinKey", "", handleCheckinKey(Cur))

CompleteCheckin ==
    /\ InCheckinChat
    /\ ~checkinBtnDisabled
    /\ Step("CompleteCheckin", "", completeCheckin(Cur))

ToggleCheckinVoice ==
    /\ InCheckinChat
    /\ Step("ToggleCheckinVoice", "", toggleCheckinVoice(Cur))

ToggleAutoMode ==
    /\ InCheckinChat
    /\ Step("ToggleAutoMode", "", toggleAutoMode(Cur))

\* the user chooses a language in the set-up form
SelectCheckinLanguage(name) ==
    /\ InCheckinSetup
    /\ name # language.checkin
    /\ Step("SelectCheckinLanguage", name,
            [Cur EXCEPT !.language.checkin = name])

SelectBookingLanguage(name) ==
    /\ InBookingSetup
    /\ name # language.booking
    /\ Step("SelectBookingLanguage", name,
            updateBookingDialects([Cur EXCEPT !.language.booking = name]))

HandleBookingSetup ==
    /\ InBookingSetup
    /\ ~bookingBtnDisabled
    /\ setups.booking < MaxSetups
    /\ Step("HandleBookingSetup", "", handleBookingSetup(Cur))

BackToBookingSetup ==
    /\ InBookingChat \/ InBookingConfirmed
    /\ Step("BackToBookingSetup", "", backToBookingSetup(Cur))

TypeBookingInput(text) ==
    /\ InBookingChat
    /\ text # bookingInput
    /\ Step("TypeBookingInput", "", [Cur EXCEPT !.bookingInput = text])

ClickBookingSend ==
    /\ InBookingChat
    /\ Step("ClickBookingSend", "", sendBookingMessage(Cur, FALSE, << >>))

HandleBookingKey ==
    /\ InBookingChat
    /\ Step("HandleBookingKey", "", handleBookingKey(Cur))

ConfirmBooking ==
    /\ InBookingChat
    /\ Step("ConfirmBooking", "", confirmBooking(Cur))

CancelBookingSession ==
    /\ InBookingChat
    /\ Step("CancelBookingSession", "", cancelBookingSession(Cur))

ToggleBookingVoice ==
    /\ InBookingChat
    /\ Step("ToggleBookingVoice", "", toggleBookingVoice(Cur))

ToggleBookingAutoMode ==
    /\ InBookingChat
    /\ Step("ToggleBookingAutoMode", "", toggleBookingAutoMode(Cur))

\* the set-up form is submitted again after a first conversation
HandleCheckinSetupAgain ==
    /\ InCheckinSetup
    /\ setups.checkin >= MaxSetups
    /\ setups.checkin < MaxSetups + MaxAgain
    /\ Step("HandleCheckinSetup", "", handleCheckinSetup(Cur))

HandleBookingSetupAgain ==
    /\ InBookingSetup
    /\ ~bookingBtnDisabled
    /\ setups.booking >= MaxSetups
    /\ setups.booking < MaxSetups + MaxAgain
    /\ Step("HandleBookingSetup", "", handleBookingSetup(Cur))

\* -------------------------------------------------------- network replies
HandleCheckinSetupReply(outcome) ==
    /\ fetches.checkinSetup > 0
    /\ Step("HandleCheckinSetupReply", outcome, handleCheckinSetupReply(Cur, outcome))

SendCheckinMessageReply(outcome) ==
    /\ fetches.checkinMsg > 0
    /\ Step("SendCheckinMessageReply", outcome, sendCheckinMessageReply(Cur, outcome))

CompleteCheckinReply(ok) ==
    /\ fetches.checkinComplete > 0
    /\ Step("CompleteCheckinReply", IF ok THEN "ok" ELSE "reject",
            completeCheckinReply(Cur, ok))

HandleBookingSetupReply(outcome) ==
    /\ fetches.bookingSetup > 0
    /\ Step("HandleBookingSetupReply", outcome, handleBookingSetupReply(Cur, outcome))

SendBookingMessageReply(outcome) ==
    /\ fetches.bookingMsg > 0
    /\ Step("SendBookingMessageReply", outcome, sendBookingMessageReply(Cur, outcome))

ConfirmBookingReply(ok) ==
    /\ fetches.bookingConfirm > 0
    /\ Step("ConfirmBookingReply", IF ok THEN "ok" ELSE "reject",
            confirmBookingReply(Cur, ok))

CancelBookingSessionReply(ok) ==
    /\ fetches.bookingCancel > 0
    /\ Step("CancelBookingSessionReply", IF ok THEN "ok" ELSE "reject",
            cancelBookingSessionReply(Cur, ok))

\* ------------------------------------------------------------------ timers
\* setTimeout(() => startCheckinListening(), 400) comes due
CheckinListenTimer ==
    /\ timers.checkin.listen > 0
    /\ Step("CheckinListenTimer", "", startCheckinListening(
           [Cur EXCEPT !.timers.checkin.listen = @ - 1]))

\* setTimeout(() => sendCheckinMessage(finalTranscript.trim()), 300) comes due
CheckinSendTimer ==
    /\ timers.checkin.send # << >>
    /\ Step("CheckinSendTimer", "", sendCheckinMessage(
           [Cur EXCEPT !.timers.checkin.send = Tail(@)],
           TRUE, Head(timers.checkin.send)))

\* setTimeout(startBookingListening, 400) comes due
BookingListenTimer ==
    /\ timers.booking.listen > 0
    /\ Step("BookingListenTimer", "", startBookingListening(
           [Cur EXCEPT !.timers.booking.listen = @ - 1]))

\* setTimeout(() => sendBookingMessage(finalTranscript.trim()), 300) comes due
BookingSendTimer ==
    /\ timers.booking.send # << >>
    /\ Step("BookingSendTimer", "", sendBookingMessage(
           [Cur EXCEPT !.timers.booking.send = Tail(@)],
           TRUE, Head(timers.booking.send)))

\* the settle timer comes due and start() of the new recognizer throws
CheckinListenStartFails ==
    /\ timers.checkin.listen > 0
    /\ hasRecog
    /\ ~checkinState.isListening
    /\ Step("CheckinListenStartFails", "", startCheckinListeningThrows(
           [Cur EXCEPT !.timers.checkin.listen = @ - 1]))

BookingListenStartFails ==
    /\ timers.booking.listen > 0
    /\ hasRecog
    /\ ~bookingState.isListening
    /\ Step("BookingListenStartFails", "", startBookingListeningThrows(
           [Cur EXCEPT !.timers.booking.listen = @ - 1]))

\* ------------------------------------------------------ stop() that throws
\* the mic is tapped while the loop listens, and stop() of the recognizer
\* throws
CheckinMicStopFails ==
    /\ InCheckinChat
    /\ checkinState.isListening
    /\ checkinRec # 0
    /\ Step("CheckinMicStopFails", "", stopCheckinVoiceThrows(Cur))

\* the submit key is pressed while a recognizer is held, and its stop() throws
CheckinKeyStopFails ==
    /\ InCheckinChat
    /\ checkinRec # 0
    /\ Step("CheckinKeyStopFails", "", handleCheckinKeyStopThrows(Cur))

BookingMicStopFails ==
    /\ InBookingChat
    /\ bookingState.isListening
    /\ bookingRec # 0
    /\ Step("BookingMicStopFails", "", stopBookingVoiceThrows(Cur))

\* a typed message is sent while a recognizer is held, and its stop() throws
BookingSendStopFails ==
    /\ InBookingChat
    /\ bookingRec # 0
    /\ Trim(bookingInput) # << >>
    /\ bookingState.bookingSessionId # 0
    /\ Step("BookingSendStopFails", "",
            sendBookingMessageStopThrows(Cur, FALSE, << >>))

\* ------------------------------------------------- speech synthesis events
uttOnstart(t, loop) == IF loop = "booking" THEN bookingUtteranceOnstart(t) ELSE t

uttOnend(t, loop) ==
    IF loop = "booking" THEN bookingUtteranceOnend(t)
    ELSE checkinUtteranceOnend(t)

uttOnerror(t, loop) ==
    IF loop = "booking" THEN bookingUtteranceOnerror(t)
    ELSE checkinUtteranceOnerror(t)

\* the engine has loaded its voices: getVoices() returns the list from now on
VoicesChanged(list) ==
    /\ hasSynth
    /\ voices = << >>
    /\ Step("VoicesChanged", "", [Cur EXCEPT !.voices = list])

\* the engine begins to speak the utterance at the head of its queue
UtteranceStart ==
    /\ speechSynthesis.queue # << >>
    /\ Head(speechSynthesis.queue).st = "queued"
    /\ Step("UtteranceStart", Head(speechSynthesis.queue).loop,
            uttOnstart([Cur EXCEPT !.speechSynthesis.queue[1].st = "speaking"],
                       Head(speechSynthesis.queue).loop))

\* the utterance is spoken to its end
UtteranceEnd ==
    /\ speechSynthesis.queue # << >>
    /\ Head(speechSynthesis.queue).st = "speaking"
    /\ Step("UtteranceEnd", Head(speechSynthesis.queue).loop,
            uttOnend([Cur EXCEPT !.speechSynthesis.queue = Tail(@)],
                     Head(speechSynthesis.queue).loop))

\* the engine fails the utterance
UtteranceError ==
    /\ speechSynthesis.queue # << >>
    /\ Step("UtteranceError", Head(speechSynthesis.queue).loop,
            uttOnerror([Cur EXCEPT !.speechSynthesis.queue = Tail(@)],
                       Head(speechSynthesis.queue).loop))

\* What a browser reports for an utterance removed by cancel() differs: an
\* end event, an error event (interrupted, canceled), or nothing.
UtteranceCancelledEnd(loop) ==
    /\ speechSynthesis.cancelled[loop] > 0
    /\ Step("UtteranceCancelledEnd", loop,
            uttOnend([Cur EXCEPT !.speechSynthesis.cancelled[loop] = @ - 1], loop))

UtteranceCancelledError(loop) ==
    /\ speechSynthesis.cancelled[loop] > 0
    /\ Step("UtteranceCancelledError", loop,
            uttOnerror([Cur EXCEPT !.speechSynthesis.cancelled[loop] = @ - 1], loop))

UtteranceCancelledSilent(loop) ==
    /\ speechSynthesis.cancelled[loop] > 0
    /\ Step("UtteranceCancelledSilent", loop,
            [Cur EXCEPT !.speechSynthesis.cancelled[loop] = @ - 1])

\* ----------------------------------------------- speech recognition events
FinalEntries == [transcript : Segments, isFinal : {TRUE}]
InterimEntries == [transcript : {Interim}, isFinal : {FALSE}]

NumFinal(results) == Cardinality({j \in DOMAIN results : results[j].isFinal})

\* The result events the engine may fire next in a session whose result list
\* is old: the new list, of the given entries, and the index of its first
\* entry that changed.  The sessions are created with continuous = false: the
\* engine returns no more than one final result, and none after it.
NextResults(old, entries) ==
    IF NumFinal(old) > 0 THEN {}
    ELSE {ev \in [results : UNION {[1..n -> entries] : n \in 1..MaxResults},
                  resultIndex : 0..(MaxResults - 1)] :
            /\ ev.resultIndex <= Len(old)
            /\ ev.resultIndex < Len(ev.results)
            /\ SubSeq(ev.results, 1, ev.resultIndex)
                   = SubSeq(old, 1, ev.resultIndex)
            /\ ev.results # old
            /\ NumFinal(ev.results) <= 1}

CheckinRecResult(entries) ==
    \E r \in BagToSet(checkinRecs) :
        /\ r.st \in {"active", "stopping"}
        /\ \E ev \in NextResults(r.results, entries) :
              Step("CheckinRecResult", "",
                   checkinRecOnresult(Cur, r, ev.results, ev.resultIndex))

CheckinRecEnd ==
    \E r \in BagToSet(checkinRecs) :
        /\ r.st \in {"active", "stopping", "errored"}
        /\ Step("CheckinRecEnd", "", checkinRecOnend(Cur, r))

CheckinRecError ==
    \E r \in BagToSet(checkinRecs) :
        /\ r.st \in {"active", "stopping"}
        /\ Step("CheckinRecError", "", checkinRecOnerror(Cur, r, "no-speech"))

\* the user or the browser refuses the microphone: the session, which has
\* heard nothing, fails with not-allowed
CheckinRecDenied ==
    \E r \in BagToSet(checkinRecs) :
        /\ r.st \in {"active", "stopping"}
        /\ r.results = << >>
        /\ Step("CheckinRecDenied", "",
                checkinRecOnerror(Cur, r, "not-allowed"))

BookingRecStart ==
    \E r \in BagToSet(bookingRecs) :
        /\ r.st = "starting"
        /\ Step("BookingRecStart", "", bookingRecOnstart(Cur, r))

BookingRecResult(entries) ==
    \E r \in BagToSet(bookingRecs) :
        /\ r.st \in {"active", "stopping"}
        /\ \E ev \in NextResults(r.results, entries) :
              Step("BookingRecResult", "",
                   bookingRecOnresult(Cur, r, ev.results, ev.resultIndex))

BookingRecEnd ==
    \E r \in BagToSet(bookingRecs) :
        /\ r.st \in {"active", "stopping", "errored"}
        /\ Step("BookingRecEnd", "", bookingRecOnend(Cur, r))

BookingRecError ==
    \E r \in BagToSet(bookingRecs) :
        /\ r.st \in {"starting", "active", "stopping"}
        /\ Step("BookingRecError", "", bookingRecOnerror(Cur, r, "no-speech"))

\* not-allowed comes before the session has started
BookingRecDenied ==
    \E r \in BagToSet(bookingRecs) :
        /\ r.st \in {"starting", "stopping"}
        /\ r.results = << >>
        /\ Step("BookingRecDenied", "",
                bookingRecOnerror(Cur, r, "not-allowed"))

\* ------------------------------------------------------------------- Next
Outcomes == {"ok", "errorJson", "reject"}
BookingOutcomes == {"ok", "confirmed", "cancelled", "errorJson", "reject"}

CheckinUser ==
    \/ HandleCheckinSetup
    \/ BackToCheckinSetup
    \/ \E text \in TypedTexts : TypeCheckinInput(text)
    \/ ClickCheckinSend
    \/ HandleCheckinKey
    \/ CompleteCheckin
    \/ ToggleCheckinVoice
    \/ ToggleAutoMode

CheckinEvents ==
    \/ \E outcome \in Outcomes : HandleCheckinSetupReply(outcome)
    \/ \E outcome \in Outcomes : SendCheckinMessageReply(outcome)
    \/ \E ok \in BOOLEAN : CompleteCheckinReply(ok)
    \/ CheckinListenTimer
    \/ CheckinSendTimer
    \/ CheckinRecResult(FinalEntries)
    \/ CheckinRecEnd
    \/ CheckinRecError

BookingUser ==
    \/ HandleBookingSetup
    \/ BackToBookingSetup
    \/ \E text \in TypedTexts : TypeBookingInput(text)
    \/ ClickBookingSend
    \/ HandleBookingKey
    \/ ToggleBookingVoice
    \/ ToggleBookingAutoMode

BookingEvents ==
    \/ \E outcome \in Outcomes : HandleBookingSetupReply(outcome)
    \/ \E outcome \in BookingOutcomes : SendBookingMessageReply(outcome)
    \/ BookingListenTimer
    \/ BookingSendTimer
    \/ BookingRecStart
    \/ BookingRecResult(FinalEntries)
    \/ BookingRecEnd
    \/ BookingRecError

\* the Confirm and Cancel buttons of the booking chat and their replies
BookingButtons ==
    \/ ConfirmBooking
    \/ CancelBookingSession
    \/ \E ok \in BOOLEAN : ConfirmBookingReply(ok)
    \/ \E ok \in BOOLEAN : CancelBookingSessionReply(ok)

\* the microphone is refused
MicDenied ==
    \/ CheckinRecDenied
    \/ BookingRecDenied

\* the language is chosen and the voices are loaded
Locale ==
    \/ \E name \in Languages : SelectCheckinLanguage(name)
    \/ \E name \in Languages : SelectBookingLanguage(name)
    \/ \E list \in VoiceLists : VoicesChanged(list)

\* start() of a recognizer throws
StartFails ==
    \/ CheckinListenStartFails
    \/ BookingListenStartFails

\* stop() of a recognizer throws
StopFails ==
    \/ CheckinMicStopFails
    \/ CheckinKeyStopFails
    \/ BookingMicStopFails
    \/ BookingSendStopFails

\* a further session is set up
SetupAgain ==
    \/ HandleCheckinSetupAgain
    \/ HandleBookingSetupAgain

SynthEvents ==
    \/ UtteranceStart
    \/ UtteranceEnd
    \/ UtteranceError
    \/ \E loop \in Loops :
          \/ UtteranceCancelledEnd(loop)
          \/ UtteranceCancelledError(loop)
          \/ UtteranceCancelledSilent(loop)

Next ==
    \/ \E view \in Views : NavigateTo(view)
    \/ CheckinUser
    \/ CheckinEvents
    \/ BookingUser
    \/ BookingEvents
    \/ BookingButtons
    \/ MicDenied
    \/ StartFails
    \/ Locale
    \/ StopFails
    \/ SetupAgain
    \/ SynthEvents

Spec == Init /\ [][Next]_vars

\* One page lifetime in which the patient uses one of the two voice loops: the
\* check-in view is not opened once a booking has been set up, nor the booking
\* view once a check-in has, and the booking is confirmed or cancelled in the
\* conversation, not by the buttons.  The patient leaves a conversation by the
\* navigation button of a portal view (which runs navigateTo and shows the
\* set-up step) or by the back button.
NextOneLoop ==
    \/ setups.booking = 0 /\ NavigateTo("checkin")
    \/ setups.checkin = 0 /\ NavigateTo("booking")
    \/ CheckinUser
    \/ CheckinEvents
    \/ BookingUser
    \/ BookingEvents
    \/ SynthEvents

SpecOneLoop == Init /\ [][NextOneLoop]_vars

\* Both loops in one page lifetime, in a browser that speaks but has no
\* SpeechRecognition: both sessions are set up, booking messages are typed and
\* sent, AutoMode is toggled in both loops, and the views are changed while
\* replies are still to come.
InitTwoLoops == Init /\ hasSynth /\ ~hasRecog

NextTwoLoops ==
    \/ \E view \in Views : NavigateTo(view)
    \/ HandleCheckinSetup
    \/ \E outcome \in Outcomes : HandleCheckinSetupReply(outcome)
    \/ ToggleAutoMode
    \/ CheckinListenTimer
    \/ HandleBookingSetup
    \/ \E outcome \in Outcomes : HandleBookingSetupReply(outcome)
    \/ \E text \in TypedTexts : TypeBookingInput(text)
    \/ HandleBookingKey
    \/ \E outcome \in Outcomes : SendBookingMessageReply(outcome)
    \/ ToggleBookingAutoMode
    \/ BookingListenTimer
    \/ SynthEvents

SpecTwoLoops == InitTwoLoops /\ [][NextTwoLoops]_vars

\* One loop used hands-free: nothing is typed or tapped after the set-up, and
\* the engine reports interim and final results.
NextHandsFree ==
    \/ NavigateTo("home")
    \/ setups.booking = 0 /\ NavigateTo("checkin")
    \/ setups.checkin = 0 /\ NavigateTo("booking")
    \/ HandleCheckinSetup
    \/ \E outcome \in Outcomes : HandleCheckinSetupReply(outcome)
    \/ CheckinListenTimer
    \/ CheckinSendTimer
    \/ \E outcome \in Outcomes : SendCheckinMessageReply(outcome)
    \/ CheckinRecResult(FinalEntries \cup InterimEntries)
    \/ CheckinRecEnd
    \/ CheckinRecError
    \/ HandleBookingSetup
    \/ \E outcome \in Outcomes : HandleBookingSetupReply(outcome)
    \/ BookingListenTimer
    \/ BookingSendTimer
    \/ \E outcome \in Outcomes : SendBookingMessageReply(outcome)
    \/ BookingRecStart
    \/ BookingRecResult(FinalEntries \cup InterimEntries)
    \/ BookingRecEnd
    \/ BookingRecError
    \/ SynthEvents

SpecHandsFree == Init /\ [][NextHandsFree]_vars

\* A browser that has SpeechRecognition and in which the microphone stays
\* refused: every session fails with not-allowed before it hears anything and
\* then ends.  The patient uses one loop, taps the mic and goes back to the
\* set-up form; nothing is typed.
InitDenied == Init /\ hasRecog

AllRefused(recs) == \A r \in BagToSet(recs) : r.st = "errored"

NextDenied ==
    \/ NavigateTo("home")
    \/ setups.booking = 0 /\ NavigateTo("checkin")
    \/ setups.checkin = 0 /\ NavigateTo("booking")
    \/ HandleCheckinSetup
    \/ \E outcome \in Outcomes : HandleCheckinSetupReply(outcome)
    \/ BackToCheckinSetup
    \/ ToggleCheckinVoice
    \/ CheckinListenTimer
    \/ CheckinRecDenied
    \/ AllRefused(checkinRecs) /\ CheckinRecEnd
    \/ HandleBookingSetup
    \/ \E outcome \in Outcomes : HandleBookingSetupReply(outcome)
    \/ BackToBookingSetup
    \/ ToggleBookingVoice
    \/ BookingListenTimer
    \/ BookingRecDenied
    \/ AllRefused(bookingRecs) /\ BookingRecEnd
    \/ SynthEvents

SpecDenied == InitDenied /\ [][NextDenied]_vars

\* One loop used hands-free in a browser in which things fail: an utterance
\* fails, a session fails or is refused, start() throws, a request fails.
NextFailures ==
    \/ setups.booking = 0 /\ NavigateTo("checkin")
    \/ setups.checkin = 0 /\ NavigateTo("booking")
    \/ HandleCheckinSetup
    \/ \E outcome \in Outcomes : HandleCheckinSetupReply(outcome)
    \/ CheckinListenTimer
    \/ CheckinSendTimer
    \/ \E outcome \in Outcomes : SendCheckinMessageReply(outcome)
    \/ CheckinRecResult(FinalEntries)
    \/ CheckinRecEnd
    \/ CheckinRecError
    \/ HandleBookingSetup
    \/ \E outcome \in Outcomes : HandleBookingSetupReply(outcome)
    \/ BookingListenTimer
    \/ BookingSendTimer
    \/ \E outcome \in Outcomes : SendBookingMessageReply(outcome)
    \/ BookingRecStart
    \/ BookingRecResult(FinalEntries)
    \/ BookingRecEnd
    \/ BookingRecError
    \/ MicDenied
    \/ StartFails
    \/ SynthEvents

SpecFailures == Init /\ [][NextFailures]_vars

\* One loop used hands-free with AutoMode on, in a browser that has both
\* engines and in which nothing fails: every request is answered, every
\* utterance is spoken to its end, every session ends by itself.  What the
\* patient says may begin or end with white space, or be white space only.
\* The event loop runs every timer that is due, and the engines and the
\* network deliver every event they owe.
TurnSegments == {<<" ", "a">>, <<"b", " ">>, <<" ">>}
TurnEntries == [transcript : TurnSegments, isFinal : {TRUE}]

InitTurn == Init /\ hasSynth /\ hasRecog

NextTurn ==
    \/ currentView = "home" /\ NavigateTo("checkin")
    \/ currentView = "home" /\ NavigateTo("booking")
    \/ HandleCheckinSetup
    \/ HandleCheckinSetupReply("ok")
    \/ CheckinListenTimer
    \/ CheckinSendTimer
    \/ SendCheckinMessageReply("ok")
    \/ CheckinRecResult(TurnEntries \cup InterimEntries)
    \/ CheckinRecEnd
    \/ HandleBookingSetup
    \/ HandleBookingSetupReply("ok")
    \/ BookingListenTimer
    \/ BookingSendTimer
    \/ SendBookingMessageReply("ok")
    \/ BookingRecStart
    \/ BookingRecResult(TurnEntries \cup InterimEntries)
    \/ BookingRecEnd
    \/ UtteranceStart
    \/ UtteranceEnd

FairTurn ==
    /\ WF_vars(HandleCheckinSetupReply("ok"))
    /\ WF_vars(HandleBookingSetupReply("ok"))
    /\ WF_vars(SendCheckinMessageReply("ok"))
    /\ WF_vars(SendBookingMessageReply("ok"))
    /\ WF_vars(CheckinListenTimer)
    /\ WF_vars(BookingListenTimer)
    /\ WF_vars(CheckinSendTimer)
    /\ WF_vars(BookingSendTimer)
    /\ WF_vars(UtteranceStart)
    /\ WF_vars(UtteranceEnd)
    /\ WF_vars(BookingRecStart)
    /\ WF_vars(CheckinRecEnd)
    /\ WF_vars(BookingRecEnd)

SpecTurn == InitTurn /\ [][NextTurn]_vars /\ FairTurn

\* A browser with both engines whose voices load at some moment.  The
\* patient chooses a language in the set-up form, holds a conversation hands
\* free or typing, goes back to the set-up form and chooses another language
\* while the conversation goes on.
InitLocale == Init /\ hasSynth /\ hasRecog

NextLocale ==
    \/ currentView = "home" /\ NavigateTo("checkin")
    \/ currentView = "home" /\ NavigateTo("booking")
    \/ Locale
    \/ HandleCheckinSetup
    \/ HandleCheckinSetupReply("ok")
    \/ CheckinListenTimer
    \/ CheckinRecEnd
    \/ HandleBookingSetup
    \/ HandleBookingSetupReply("ok")
    \/ BackToBookingSetup
    \/ \E text \in TypedTexts : TypeBookingInput(text)
    \/ HandleBookingKey
    \/ SendBookingMessageReply("ok")
    \/ BookingListenTimer
    \/ BookingRecStart
    \/ BookingRecEnd
    \/ UtteranceStart
    \/ UtteranceEnd
    \/ \E loop \in Loops : UtteranceCancelledEnd(loop)

SpecLocale == InitLocale /\ [][NextLocale]_vars

\* One loop in a browser with both engines in which stop() of a recognizer
\* may throw.  The patient talks, types, taps the mic and sends; every request
\* is answered.
InitStops == Init /\ hasSynth /\ hasRecog

NextStops ==
    \/ currentView = "home" /\ NavigateTo("checkin")
    \/ currentView = "home" /\ NavigateTo("booking")
    \/ HandleCheckinSetup
    \/ HandleCheckinSetupReply("ok")
    \/ \E text \in TypedTexts : TypeCheckinInput(text)
    \/ ToggleCheckinVoice
    \/ CheckinListenTimer
    \/ CheckinSendTimer
    \/ SendCheckinMessageReply("ok")
    \/ CheckinRecResult(FinalEntries)
    \/ CheckinRecEnd
    \/ HandleBookingSetup
    \/ HandleBookingSetupReply("ok")
    \/ \E text \in TypedTexts : TypeBookingInput(text)
    \/ ToggleBookingVoice
    \/ BookingListenTimer
    \/ BookingSendTimer
    \/ SendBookingMessageReply("ok")
    \/ BookingRecStart
    \/ BookingRecResult(FinalEntries)
    \/ BookingRecEnd
    \/ StopFails
    \/ UtteranceStart
    \/ UtteranceEnd

SpecStops == InitStops /\ [][NextStops]_vars

\* One loop over two conversations in a browser with both engines: the
\* patient sets a session up, toggles AutoMode, goes back to the set-up form
\* and sets up a further session.
InitSessions == Init /\ hasSynth /\ hasRecog

NextSessions ==
    \/ currentView = "home" /\ NavigateTo("checkin")
    \/ currentView = "home" /\ NavigateTo("booking")
    \/ HandleCheckinSetup
    \/ \E outcome \in Outcomes : HandleCheckinSetupReply(outcome)
    \/ ToggleAutoMode
    \/ BackToCheckinSetup
    \/ CheckinListenTimer
    \/ CheckinRecEnd
    \/ HandleBookingSetup
    \/ \E outcome \in Outcomes : HandleBookingSetupReply(outcome)
    \/ ToggleBookingAutoMode
    \/ BackToBookingSetup
    \/ BookingListenTimer
    \/ BookingRecStart
    \/ BookingRecEnd
    \/ SetupAgain
    \/ UtteranceStart
    \/ UtteranceEnd
    \/ \E loop \in Loops : UtteranceCancelledSilent(loop)

SpecSessions == InitSessions /\ [][NextSessions]_vars

\* One loop in a browser with SpeechRecognition in which the patient types
\* messages or white space only, clicks Send on whatever the field holds,
\* talks, and goes back to the set-up form while a transcript waits for its
\* automatic submission.
FieldTexts == {Typed, Blank}

InitSends == Init /\ hasRecog

NextSends ==
    \/ currentView = "home" /\ NavigateTo("checkin")
    \/ currentView = "home" /\ NavigateTo("booking")
    \/ HandleCheckinSetup
    \/ \E outcome \in Outcomes : HandleCheckinSetupReply(outcome)
    \/ BackToCheckinSetup
    \/ \E text \in FieldTexts : TypeCheckinInput(text)
    \/ ClickCheckinSend
    \/ ToggleCheckinVoice
    \/ CheckinListenTimer
    \/ CheckinSendTimer
    \/ SendCheckinMessageReply("ok")
    \/ CheckinRecResult(FinalEntries)
    \/ CheckinRecEnd
    \/ HandleBookingSetup
    \/ HandleBookingSetupReply("ok")
    \/ BackToBookingSetup
    \/ \E text \in FieldTexts : TypeBookingInput(text)
    \/ ClickBookingSend
    \/ ToggleBookingVoice
    \/ BookingListenTimer
    \/ BookingSendTimer
    \/ SendBookingMessageReply("ok")
    \/ BookingRecStart
    \/ BookingRecResult(FinalEntries)
    \/ BookingRecEnd
    \/ UtteranceStart
    \/ UtteranceEnd

SpecSends == InitSends /\ [][NextSends]_vars

\* ------------------------------------------------------------ properties
\* the handlers a user action runs
UserOps ==
    {"NavigateTo", "HandleCheckinSetup", "BackToCheckinSetup",
     "TypeCheckinInput", "ClickCheckinSend", "HandleCheckinKey",
     "CompleteCheckin", "ToggleCheckinVoice", "ToggleAutoMode",
     "HandleBookingSetup", "BackToBookingSetup", "TypeBookingInput",
     "SelectCheckinLanguage", "SelectBookingLanguage",
     "ClickBookingSend", "HandleBookingKey", "ConfirmBooking",
     "CancelBookingSession", "ToggleBookingVoice", "ToggleBookingAutoMode"}

LoopState(loop) == IF loop = "checkin" THEN checkinState ELSE bookingState
AutoMode(loop) == LoopState(loop).isAutoMode
Idle(loop) == ~LoopState(loop).isSpeaking /\ ~LoopState(loop).isListening
Recs(loop) == IF loop = "checkin" THEN checkinRecs ELSE bookingRecs
Messages(loop) == IF loop = "checkin" THEN checkinMessages ELSE bookingMessages
Apology(loop) == IF loop = "checkin" THEN CheckinApology ELSE BookingApology
MsgKind(loop) == IF loop = "checkin" THEN "checkinMsg" ELSE "bookingMsg"
ToggleOp(loop) ==
    IF loop = "checkin" THEN "ToggleAutoMode" ELSE "ToggleBookingAutoMode"
ListenTimerOp(loop) ==
    IF loop = "checkin" THEN "CheckinListenTimer" ELSE "BookingListenTimer"
SendTimerOp(loop) ==
    IF loop = "checkin" THEN "CheckinSendTimer" ELSE "BookingSendTimer"
ReplyOp(loop) ==
    IF loop = "checkin" THEN "SendCheckinMessageReply"
    ELSE "SendBookingMessageReply"
RecErrorOp(loop) ==
    IF loop = "checkin" THEN "CheckinRecError" ELSE "BookingRecError"

\* the utterances of a loop in the engine's queue
LoopUtterances(loop) ==
    SelectSeq(speechSynthesis.queue, LAMBDA u : u.loop = loop)

\* the jobs of a loop in flight
Speaking(loop) == LoopUtterances(loop) # << >>
Listening(loop) == \E r \in BagToSet(Recs(loop)) : r.st = "active"
Submitting(loop) == fetches[MsgKind(loop)] > 0
InFlight(loop) ==
    (IF Speaking(loop) THEN 1 ELSE 0) + (IF Listening(loop) THEN 1 ELSE 0)
        + (IF Submitting(loop) THEN 1 ELSE 0)

\* what a step does to a loop
SessionStarts(loop) ==
    BagCardinality(Recs(loop)') > BagCardinality(Recs(loop))
UtteranceStarts(loop) ==
    CountLoop(speechSynthesis'.queue, loop) > CountLoop(speechSynthesis.queue, loop)
Submits(loop) == fetches'[MsgKind(loop)] > fetches[MsgKind(loop)]

\* C1: in each loop, whatever the user, the engines, the timers and the
\* network did, isSpeaking and isListening are never both true.
C1_MutualExclusion ==
    \A loop \in Loops :
        ~(LoopState(loop).isSpeaking /\ LoopState(loop).isListening)

\* C2: in each loop at most one of Speaking, Listening and Submitting is in
\* flight, and no two message requests of the loop await their replies together.
C2_OneJobInFlight ==
    \A loop \in Loops : InFlight(loop) <= 1 /\ fetches[MsgKind(loop)] <= 1

\* what the other loop can observe of a loop
Observable(loop) ==
    <<LoopState(loop), LoopUtterances(loop), Recs(loop),
      IF loop = "checkin" THEN checkinRec ELSE bookingRec>>

\* the step toggled AutoMode of the loop, or was a failure in it: a speech
\* error, a recognition error, a failed message request
ToggleOrFailure(loop) ==
    \/ last'.op = ToggleOp(loop)
    \/ last'.op \in {"UtteranceError", "UtteranceCancelledError"}
          /\ last'.arg = loop
    \/ last'.op = RecErrorOp(loop)
    \/ last'.op = ReplyOp(loop) /\ last'.arg \in {"errorJson", "reject"}

\* C3: an AutoMode toggle or a failure in the check-in loop changes nothing
\* observable of the booking loop (its flags, its utterance in flight, its
\* recognition session), and a booking toggle or failure nothing of check-in.
C3_Isolation ==
    [][/\ ToggleOrFailure("checkin") => Observable("booking")' = Observable("booking")
       /\ ToggleOrFailure("booking") => Observable("checkin")' = Observable("checkin")]_vars

\* the settle timer of the loop fired and a recognition session is now active
\* or being started
ListeningAfterTimer(loop) ==
    IF loop = "checkin"
    THEN /\ checkinState.isListening
         /\ \E r \in BagToSet(checkinRecs) : r.st = "active"
    ELSE \/ bookingState.isListening
         \/ /\ bookingRec = 1
            /\ \E r \in BagToSet(bookingRecs) : r.held /\ r.st = "starting"

C5_StaysIdle ==
    [][\A loop \in Loops :
          (last.op = "UtteranceEnd" /\ last.arg = loop /\ ~AutoMode(loop))
             => /\ Idle(loop)
                /\ last'.op \notin UserOps
                      => /\ ~SessionStarts(loop)
                         /\ ~UtteranceStarts(loop)
                         /\ ~Submits(loop)]_vars

\* C6: a recognition session started by the settle timer that the end of an
\* utterance set (not by a mic tap) starts while AutoMode is true.
C6_TimerListensOnlyInAutoMode ==
    [][\A loop \in Loops :
          (hasSynth /\ last'.op = ListenTimerOp(loop) /\ SessionStarts(loop))
             => AutoMode(loop)]_vars

\* C7: toggling AutoMode off leaves the utterance and the recognition session
\* in flight, and the flags of the loop, as they are.
C7_ToggleOffKeepsJob ==
    [][\A loop \in Loops :
          (last'.op = ToggleOp(loop) /\ ~AutoMode(loop)')
             => /\ LoopUtterances(loop)' = LoopUtterances(loop)
                /\ Recs(loop)' = Recs(loop)
                /\ LoopState(loop)'.isSpeaking = LoopState(loop).isSpeaking
                /\ LoopState(loop)'.isListening = LoopState(loop).isListening]_vars

\* C8: the loop submits a transcript by itself (the 300 ms timer set at the
\* end of a listening session calls the send function) only while AutoMode is
\* true, and only a transcript that is not empty.
C8_AutoSubmitOnlyInAutoMode ==
    [][\A loop \in Loops :
          /\ (last'.op = SendTimerOp(loop) /\ Submits(loop)) => AutoMode(loop)
          /\ \A j \in DOMAIN timers[loop].send :
                Trim(timers[loop].send[j]) # << >>]_vars

C10_FailedSubmission ==
    [][\A loop \in Loops :
          (last'.op = ReplyOp(loop) /\ last'.arg \in {"errorJson", "reject"})
             => /\ Messages(loop)' =
                       Append(Messages(loop),
                              [role |-> "assistant", text |-> Apology(loop)])
                /\ Idle(loop)'
                /\ ~SessionStarts(loop)
                /\ ~UtteranceStarts(loop)
                /\ timers'[loop].listen = timers[loop].listen]_vars

\* the handlers that submit what the input field holds
FieldSendOps(loop) ==
    IF loop = "checkin" THEN {"ClickCheckinSend", "HandleCheckinKey"}
    ELSE {"ClickBookingSend", "HandleBookingKey"}

\* the text of the bubble a step appended last
Appended(loop) == Messages(loop)'[Len(Messages(loop)')].text

\* C11: one step issues at most one message request, the reply to a request
\* (a failed one included) issues none, and an utterance that waits for its
\* automatic submission is not submitted by another handler as well, so that
\* no utterance is requested twice.
C11_OneRequestPerUtterance ==
    [][\A loop \in Loops :
          /\ fetches'[MsgKind(loop)] <= fetches[MsgKind(loop)] + 1
          /\ last'.op = ReplyOp(loop) => ~Submits(loop)
          /\ (Submits(loop) /\ last'.op \in FieldSendOps(loop))
                => \A j \in DOMAIN timers[loop].send :
                      timers[loop].send[j] # Appended(loop)]_vars

\* the bubbles of a role in a transcript log
Bubbles(loop, role) ==
    Cardinality({j \in DOMAIN Messages(loop) : Messages(loop)[j].role = role})

\* C12: the transcript log of a loop is the greeting followed by whole turns
\* in order: a user bubble, then the assistant bubble of its reply, then the
\* user bubble of the next turn; a user bubble without a reply belongs to the
\* one request that still awaits it.
C12_TurnsInOrder ==
    \A loop \in Loops :
        /\ \A j \in DOMAIN Messages(loop) :
              Messages(loop)[j].role =
                  IF j % 2 = 1 THEN "assistant" ELSE "user"
        /\ Messages(loop) # << >>
              => Bubbles(loop, "user") + 1
                    = Bubbles(loop, "assistant") + fetches[MsgKind(loop)]

\* the conversation of the loop has reached its terminal outcome: the booking
\* is confirmed, the check-in is completed and its summary shown
Terminal(loop) ==
    IF loop = "checkin" THEN checkinStep = "summary"
    ELSE bookingStep = "confirmed"

\* C13: once the terminal outcome of a loop is reached, no step starts a
\* recognition session, starts an utterance or submits a message for it until
\* the user starts over.  (Stated for a browser that speaks; the utterance
\* that announces the outcome is queued by the step that reaches it.)
C13_NoTurnAfterTerminal ==
    [][\A loop \in Loops :
          (hasSynth /\ Terminal(loop))
             => /\ ~SessionStarts(loop)
                /\ ~UtteranceStarts(loop)
                /\ ~Submits(loop)]_vars

ToggleVoiceOp(loop) ==
    IF loop = "checkin" THEN "ToggleCheckinVoice" ELSE "ToggleBookingVoice"
RecEndOp(loop) == IF loop = "checkin" THEN "CheckinRecEnd" ELSE "BookingRecEnd"

\* the sessions of a loop that a step removed
Ended(loop) ==
    {r \in BagToSet(Recs(loop)) :
        CopiesIn(r, Recs(loop)') < CopiesIn(r, Recs(loop))}

\* the mic tap that ran last stopped the listening session of the loop
MicTapStopped(loop) ==
    /\ last.op = ToggleVoiceOp(loop)
    /\ ~LoopState(loop).isListening
    /\ \E r \in BagToSet(Recs(loop)) : r.st = "stopping"

\* C14: when a mic tap has stopped the listening session, the end of the
\* stopped session schedules no submission (it sets no send timer).
C14_StoppedSessionSubmitsNothing ==
    [][\A loop \in Loops :
          (/\ MicTapStopped(loop)
           /\ last'.op = RecEndOp(loop)
           /\ \A r \in Ended(loop) : r.st = "stopping")
             => timers'[loop].send = timers[loop].send]_vars

\* the voice indicator of a loop
Indicator(loop) ==
    IF loop = "checkin" THEN checkinIndicator
    ELSE IF bookingIndicator THEN "on" ELSE "off"

\* C15: a mic tap while the loop is not listening (speaking or idle), in a
\* browser with SpeechRecognition, leaves no utterance of the loop in the
\* engine, clears isSpeaking, starts the recognition session in the same step
\* and sets no settle timer; and what the engine then reports for the stopped
\* utterance changes neither the flags, nor the indicator, nor the timers of
\* the loop.
C15_MicTapTakesOver ==
    [][\A loop \in Loops :
          /\ (/\ last'.op = ToggleVoiceOp(loop)
              /\ hasRecog
              /\ ~LoopState(loop).isListening)
                => /\ LoopUtterances(loop)' = << >>
                   /\ ~LoopState(loop)'.isSpeaking
                   /\ SessionStarts(loop)
                   /\ timers'[loop] = timers[loop]
          /\ (/\ last.op = ToggleVoiceOp(loop)
              /\ last'.op \in {"UtteranceCancelledEnd", "UtteranceCancelledError"}
              /\ last'.arg = loop)
                => /\ LoopState(loop)' = LoopState(loop)
                   /\ Indicator(loop)' = Indicator(loop)
                   /\ timers'[loop] = timers[loop]]_vars

\* what can be observed of a loop in the snapshot t: its flags, its voice
\* indicator, its utterances in the engine, its recognition sessions and its
\* timers
ObservableIn(t, loop) ==
    IF loop = "checkin"
    THEN <<t.checkinState, t.checkinIndicator,
           SelectSeq(t.speechSynthesis.queue, LAMBDA u : u.loop = "checkin"),
           t.checkinRecs, t.timers.checkin>>
    ELSE <<t.bookingState, t.bookingIndicator,
           SelectSeq(t.speechSynthesis.queue, LAMBDA u : u.loop = "booking"),
           t.bookingRecs, t.timers.booking>>

\* the speech output driver of the loop has nothing to speak
OutputIdle(loop) == LoopUtterances(loop) = << >> /\ ~LoopState(loop).isSpeaking

\* the speech input driver of the loop has no session and holds no handle
InputIdle(loop) ==
    /\ Recs(loop) = EmptyBag
    /\ ~LoopState(loop).isListening
    /\ (IF loop = "checkin" THEN checkinRec ELSE bookingRec) = 0

\* C16: in every state the program reaches, a stop function called twice
\* leaves what it leaves when called once, and called while its driver is
\* idle it changes nothing observable of its loop.
C16_IdempotentStop ==
    /\ stopCheckinSpeaking(stopCheckinSpeaking(Cur)) = stopCheckinSpeaking(Cur)
    /\ stopCheckinVoice(stopCheckinVoice(Cur)) = stopCheckinVoice(Cur)
    /\ stopBookingSpeaking(stopBookingSpeaking(Cur)) = stopBookingSpeaking(Cur)
    /\ stopBookingVoice(stopBookingVoice(Cur)) = stopBookingVoice(Cur)
    /\ OutputIdle("checkin")
          => ObservableIn(stopCheckinSpeaking(Cur), "checkin")
                = ObservableIn(Cur, "checkin")
    /\ InputIdle("checkin")
          => ObservableIn(stopCheckinVoice(Cur), "checkin")
                = ObservableIn(Cur, "checkin")
    /\ OutputIdle("booking")
          => ObservableIn(stopBookingSpeaking(Cur), "booking")
                = ObservableIn(Cur, "booking")
    /\ InputIdle("booking")
          => ObservableIn(stopBookingVoice(Cur), "booking")
                = ObservableIn(Cur, "booking")

Handle(loop) == IF loop = "checkin" THEN checkinRec ELSE bookingRec

\* the loops a leaving handler tears down
LeftBy(op) ==
    IF op = "NavigateTo" THEN Loops
    ELSE IF op = "BackToCheckinSetup" THEN {"checkin"}
    ELSE IF op = "BackToBookingSetup" THEN {"booking"}
    ELSE {}

\* C17: right after navigateTo (both loops), backToCheckinSetup (check-in) or
\* backToBookingSetup (booking), whatever the state before, isSpeaking and
\* isListening of the loop are false, its recognition handle is null and the
\* engine holds no utterance of it.
C17_LeavingTearsDown ==
    \A loop \in LeftBy(last.op) :
        /\ ~LoopState(loop).isSpeaking
        /\ ~LoopState(loop).isListening
        /\ Handle(loop) = 0
        /\ LoopUtterances(loop) = << >>

\* a leaving handler has just cancelled an utterance and stopped a session
C17_Witness ==
    \E loop \in LeftBy(last.op) :
        /\ speechSynthesis.cancelled[loop] > 0
        /\ \E r \in BagToSet(Recs(loop)) : r.st = "stopping" /\ ~r.held

DeniedOp(loop) ==
    IF loop = "checkin" THEN "CheckinRecDenied" ELSE "BookingRecDenied"

\* C18: the step that reports the refused microphone shows the alert once,
\* leaves isListening false and the voice indicator cleared, keeps AutoMode
\* as it is, starts no recognition session and sets no timer; and the end
\* event of the refused session shows no alert, starts no session and sets no
\* timer.
C18_DenialResetsToIdle ==
    [][\A loop \in Loops :
          /\ last'.op = DeniedOp(loop)
                => /\ micAlerts' = micAlerts + 1
                   /\ ~LoopState(loop)'.isListening
                   /\ Indicator(loop)' \in {"idle", "off"}
                   /\ AutoMode(loop)' = AutoMode(loop)
                   /\ ~SessionStarts(loop)
                   /\ timers' = timers
          /\ (last'.op = RecEndOp(loop)
                /\ \A r \in Ended(loop) : r.st = "errored")
                => /\ micAlerts' = micAlerts
                   /\ ~LoopState(loop)'.isListening
                   /\ ~SessionStarts(loop)
                   /\ timers' = timers]_vars

\* a session has been refused with AutoMode on in a browser that speaks
C18_Witness ==
    \E loop \in Loops :
        /\ last.op = DeniedOp(loop)
        /\ micAlerts = 1
        /\ AutoMode(loop)
        /\ hasSynth
        /\ \E r \in BagToSet(Recs(loop)) : r.st = "errored"

\* C19: once the microphone has been refused, and no session has succeeded
\* since, the settle timer that the end of an utterance set starts no
\* recognition session.
C19_NoListenAfterDenial ==
    [][\A loop \in Loops :
          (hasSynth /\ micAlerts > 0 /\ last'.op = ListenTimerOp(loop))
             => ~SessionStarts(loop)]_vars

\* C20: in a browser without speechSynthesis no step other than a user action
\* starts a recognition session; and in a browser without SpeechRecognition,
\* once the settle timer has fired and found no recognition, the next step,
\* unless it is a user action, queues no utterance and sets no settle timer.
C20_DegradesToTextOnly ==
    [][\A loop \in Loops :
          /\ (~hasSynth /\ last'.op \notin UserOps) => ~SessionStarts(loop)
          /\ (/\ ~hasRecog
              /\ last.op = ListenTimerOp(loop)
              /\ last'.op \notin UserOps)
                => /\ ~UtteranceStarts(loop)
                   /\ timers'[loop].listen <= timers[loop].listen]_vars

StartFailsOp(loop) ==
    IF loop = "checkin" THEN "CheckinListenStartFails"
    ELSE "BookingListenStartFails"

\* the step is a failure in the loop: a speech error, a recognition error, a
\* refused microphone, a start() that throws, a failed message request
FailureIn(loop) ==
    \/ last'.op = "UtteranceError" /\ last'.arg = loop
    \/ last'.op \in {RecErrorOp(loop), DeniedOp(loop), StartFailsOp(loop)}
    \/ last'.op = ReplyOp(loop) /\ last'.arg \in {"errorJson", "reject"}

\* C21: after every failure step in a loop (speech error, recognition error,
\* recognition start failure, permission denial, failed message request)
\* isSpeaking and isListening of the loop are false and its voice indicator
\* is cleared.
C21_FailuresResetToIdle ==
    [][\A loop \in Loops :
          FailureIn(loop) => Idle(loop)' /\ Indicator(loop)' \in {"idle", "off"}]_vars

KeyOp(loop) == IF loop = "checkin" THEN "HandleCheckinKey" ELSE "HandleBookingKey"
Input(loop) == IF loop = "checkin" THEN checkinInput ELSE bookingInput
SessionId(loop) ==
    IF loop = "checkin" THEN checkinState.sessionId
    ELSE bookingState.bookingSessionId

\* the recognition sessions of a loop that are running or about to
Running(recs) == {r \in BagToSet(recs) : r.st \in {"starting", "active"}}

\* C22: when the submit key is pressed on a typed text in a conversation,
\* AutoMode on or off, the step leaves no recognition session of the loop
\* running, leaves isListening false, and submits the typed text (trimmed).
C22_TypedSubmitStopsListening ==
    [][\A loop \in Loops :
          (/\ last'.op = KeyOp(loop)
           /\ Trim(Input(loop)) # << >>
           /\ SessionId(loop) # 0)
             => /\ Running(Recs(loop)') = {}
                /\ ~LoopState(loop)'.isListening
                /\ Submits(loop)
                /\ Appended(loop) = Trim(Input(loop))]_vars

\* the utterance a step put last into the engine's queue
Queued == speechSynthesis'.queue[Len(speechSynthesis'.queue)]

\* C23: in a browser that speaks, the reply to a message request that
\* succeeded (a reply text, the conversation going on) leaves an utterance of
\* the loop with the reply text in the engine, the last one queued.
C23_ReplyIsSpoken ==
    [][\A loop \in Loops :
          (hasSynth /\ last'.op = ReplyOp(loop) /\ last'.arg = "ok")
             => /\ speechSynthesis'.queue # << >>
                /\ Queued.loop = loop
                /\ Queued.text = Reply]_vars

\* the send control of a loop is disabled; the script disables no control of
\* the booking chat (btn-start-booking belongs to the set-up form)
SendDisabled(loop) == loop = "checkin" /\ checkinBtnDisabled

\* C24: while a message request of a loop awaits its reply the send control
\* of the loop is disabled.
C24_SendDisabledWhilePending ==
    \A loop \in Loops : Submitting(loop) => SendDisabled(loop)

SetupReplyOp(loop) ==
    IF loop = "checkin" THEN "HandleCheckinSetupReply"
    ELSE "HandleBookingSetupReply"

\* the texts of the replies that open a turn
Spoken(op) ==
    IF op = "HandleCheckinSetupReply" THEN Greeting
    ELSE IF op = "HandleBookingSetupReply" THEN Welcome
    ELSE Reply

\* a session of the loop holds a final transcript that is not blank
Heard(loop) ==
    \E r \in BagToSet(Recs(loop)) : Trim(r.finalTranscript) # << >>

\* the log of the loop has room for a user bubble and the reply to it
Room(loop) == Len(Messages(loop)) + 2 <= MaxMsgs

\* the steps of one turn, each doing what the turn needs of it
TurnSteps(loop) ==
    /\ last'.op \in {SetupReplyOp(loop), ReplyOp(loop)}
          => /\ Len(speechSynthesis'.queue) = 1
             /\ Queued.loop = loop
             /\ Queued.text = Spoken(last'.op)
             /\ Running(Recs(loop)') = {}
    /\ (last'.op = "UtteranceEnd" /\ last'.arg = loop)
          => timers'[loop].listen = timers[loop].listen + 1
    /\ last'.op = ListenTimerOp(loop)
          => /\ SessionStarts(loop)
             /\ Running(Recs(loop)') # {}
             /\ speechSynthesis'.queue = << >>
    /\ last'.op = RecEndOp(loop)
          => \A r \in Ended(loop) :
                timers'[loop].send =
                    IF Trim(r.finalTranscript) # << >>
                    THEN Append(timers[loop].send, Trim(r.finalTranscript))
                    ELSE timers[loop].send
    /\ last'.op = SendTimerOp(loop)
          => /\ Submits(loop)
             /\ Messages(loop)' =
                    Append(Messages(loop),
                           [role |-> "user", text |-> Head(timers[loop].send)])

\* C25: with AutoMode on, both engines and no failure, a greeting or reply
\* is queued for speaking by the step that receives it; the end of the
\* utterance sets the settle timer, which starts a listening session; the
\* end of a session that holds a final transcript that is not blank sets the
\* send timer with the trimmed transcript, and that timer submits exactly
\* that text; and what is spoken is eventually followed by a running
\* session, what is heard by a request, a request by the next utterance
\* (as long as the log of the model has room for the bubbles).
C25_TurnAdvances ==
    /\ [][\A loop \in Loops : TurnSteps(loop)]_vars
    /\ \A loop \in Loops :
          /\ Speaking(loop) ~> (Running(Recs(loop)) # {})
          /\ (Heard(loop) /\ Room(loop)) ~> Submitting(loop)
          /\ (Submitting(loop) /\ Len(Messages(loop)) < MaxMsgs)
                ~> Speaking(loop)

\* the reply to a transcript that was submitted by the loop itself is in the
\* engine's queue
C25_Witness ==
    \E loop \in Loops :
        /\ last.op = ReplyOp(loop)
        /\ AutoMode(loop)
        /\ Len(Messages(loop)) = 3
        /\ Messages(loop)[2] = [role |-> "user", text |-> <<"a">>]
        /\ LoopUtterances(loop) # << >>

\* the step called the listen function of the loop: the settle timer came
\* due, or the mic was tapped while isListening was false
CallsListen(loop) ==
    \/ last'.op = ListenTimerOp(loop)
    \/ last'.op = ToggleVoiceOp(loop) /\ ~LoopState(loop).isListening

\* C26: a call of the listen function while a recognition session of the
\* loop has been started (start() called and the session not yet ended or
\* stopped) creates no session and leaves the sessions and the handle of
\* the loop as they are.
C26_ListenIsReentrant ==
    [][\A loop \in Loops :
          (CallsListen(loop) /\ Running(Recs(loop)) # {})
             => /\ Recs(loop)' = Recs(loop)
                /\ Handle(loop)' = Handle(loop)]_vars

\* C27: in every state the program reaches, stopping the speech output
\* driver of a loop leaves the voice indicator of the loop not showing
\* speaking: stopCheckinSpeaking leaves #checkin-voice-indicator other than
\* 'speaking', stopBookingSpeaking leaves #booking-voice-indicator hidden.
C27_StopResetsSpeakingIndicator ==
    /\ stopCheckinSpeaking(Cur).checkinIndicator # "speaking"
    /\ ~stopBookingSpeaking(Cur).bookingIndicator

\* the step handed a new utterance to the engine (a speak function cancels
\* what the queue holds before it queues its utterance)
Speaks ==
    /\ speechSynthesis'.queue # << >>
    /\ speechSynthesis'.queue # speechSynthesis.queue
    /\ last'.op # "UtteranceStart"

\* the voices whose lang is the locale, and those whose lang begins with its
\* language prefix
ExactVoices(list, bcp47) == {i \in 1..Len(list) : list[i] = bcp47}
PrefixVoices(list, bcp47) ==
    {i \in 1..Len(list) : StartsWith(list[i], SplitDash0(bcp47))}

\* C28: whatever voices the engine has, an utterance is given a voice whose
\* lang is the locale of the utterance if there is one, else a voice whose
\* lang begins with the language prefix if there is one, else no voice (the
\* engine's default).
C28_VoicePreference ==
    [][Speaks =>
          IF ExactVoices(voices, Queued.lang) # {}
          THEN Queued.voice = Queued.lang
          ELSE IF PrefixVoices(voices, Queued.lang) # {}
          THEN StartsWith(Queued.voice, SplitDash0(Queued.lang))
          ELSE Queued.voice = ""]_vars

LangCode(loop) == LoopState(loop).langCode

\* the session a step created: the one the handle of the loop refers to
Created(loop) == {r \in BagToSet(Recs(loop)') : r.held}

\* C29: the utterance a step hands to the engine has the locale of the
\* language code its loop has in that step, and the recognition session a
\* step creates has the locale of the language code its loop has in that
\* step: SPEECH_LANG_MAP[langCode], or en-SG when the map has no entry.
C29_LocaleAtCallTime ==
    [][\A loop \in Loops :
          /\ (Speaks /\ Queued.loop = loop)
                => Queued.lang = SpeechLang(LangCode(loop)')
          /\ SessionStarts(loop)
                => \A r \in Created(loop) : r.lang = SpeechLang(LangCode(loop)')]_vars

\* the booking session was set up in English, the language was then changed
\* to Cantonese, and the settle timer has created a session with zh-HK while
\* an older session with en-SG has not ended yet
C29_Witness ==
    /\ last.op = "BookingListenTimer"
    /\ bookingState.bookingSessionId = 1
    /\ language.submitted = "English"
    /\ bookingState.langCode = "zh_cantonese"
    /\ \E r \in BagToSet(bookingRecs) : r.held /\ r.lang = "zh-HK"
    /\ \E r \in BagToSet(bookingRecs) : ~r.held /\ r.lang = "en-SG"

\* C30: the end of a listening session that holds no final text (none, or
\* white space only) submits no message and schedules none, appends nothing
\* to the transcript log, raises no alert, starts no session and no
\* utterance, and leaves isListening false.
C30_EmptyTranscriptIsSilent ==
    [][\A loop \in Loops :
          (/\ last'.op = RecEndOp(loop)
           /\ \A r \in Ended(loop) : Trim(r.finalTranscript) = << >>)
             => /\ fetches' = fetches
                /\ timers' = timers
                /\ Messages(loop)' = Messages(loop)
                /\ micAlerts' = micAlerts
                /\ speechSynthesis' = speechSynthesis
                /\ ~SessionStarts(loop)
                /\ ~LoopState(loop)'.isListening]_vars

\* a check-in session that heard interim text only has ended with AutoMode
\* on: the text is in the input field and nothing is scheduled or pending
C30_Witness ==
    /\ last.op = "CheckinRecEnd"
    /\ checkinState.isAutoMode
    /\ checkinState.sessionId = 1
    /\ checkinInput = Interim
    /\ checkinRecs = EmptyBag
    /\ timers.checkin.send = << >>
    /\ fetches.checkinMsg = 0

\* C31: the step that hands an utterance of a loop to the engine (a greeting,
\* a reply, a confirmation or a cancellation message) leaves no recognition
\* session of that loop active.
C31_SpeakStopsListening ==
    [][\A loop \in Loops :
          (Speaks /\ Queued.loop = loop) => ~Listening(loop)']_vars

MicStopFailsOp(loop) ==
    IF loop = "checkin" THEN "CheckinMicStopFails" ELSE "BookingMicStopFails"
SendStopFailsOp(loop) ==
    IF loop = "checkin" THEN "CheckinKeyStopFails" ELSE "BookingSendStopFails"

\* C32: a step in which the stop function of a loop runs and stop() of the
\* recognizer throws leaves isListening false, the voice indicator cleared and
\* the handle null with no session held; and the handler that called the stop
\* function goes on: a typed text that was being sent is appended and
\* requested.
C32_StopSurvivesThrow ==
    [][\A loop \in Loops :
          /\ last'.op \in {MicStopFailsOp(loop), SendStopFailsOp(loop)}
                => /\ ~LoopState(loop)'.isListening
                   /\ Indicator(loop)' \in {"idle", "off"}
                   /\ Handle(loop)' = 0
                   /\ \A r \in BagToSet(Recs(loop)') : ~r.held
          /\ (/\ last'.op = SendStopFailsOp(loop)
              /\ Trim(Input(loop)) # << >>
              /\ SessionId(loop) # 0)
                => /\ Submits(loop)
                   /\ Appended(loop) = Trim(Input(loop))]_vars

\* the submit key was pressed while the check-in loop listened and stop()
\* threw: the session goes on unheld and the typed text is requested
C32_Witness ==
    /\ last.op = "CheckinKeyStopFails"
    /\ \E r \in BagToSet(checkinRecs) : r.st = "active" /\ ~r.held
    /\ fetches.checkinMsg = 1
    /\ checkinMessages[Len(checkinMessages)] = [role |-> "user", text |-> Typed]

\* C33: the step that opens the conversation of a newly set-up session (the
\* reply to the set-up request) leaves AutoMode of the loop on, whatever it
\* was at the end of the session before.
C33_NewSessionStartsInAutoMode ==
    [][\A loop \in Loops :
          (last'.op = SetupReplyOp(loop) /\ last'.arg = "ok")
             => AutoMode(loop)']_vars

\* the conversation of the loop has been left (or was never opened): another
\* view is shown, or the set-up form of the loop, or the check-in summary
TornDown(loop) ==
    IF loop = "checkin"
    THEN currentView # "checkin" \/ checkinStep \in {"setup", "summary"}
    ELSE currentView # "booking" \/ bookingStep = "setup"

\* C34: while the conversation of a loop is torn down, no step other than
\* the reply that opens a newly set-up session starts a recognition session
\* of the loop or hands an utterance of the loop to the engine.
C34_NoRestartAfterTeardown ==
    [][\A loop \in Loops :
          (TornDown(loop) /\ last'.op # SetupReplyOp(loop))
             => /\ ~SessionStarts(loop)
                /\ ~(Speaks /\ Queued.loop = loop)]_vars

\* the loop holds a running session, every other session of it has been
\* stopped, and the held one is still there after the step: the step was an
\* event of a stopped session
NewerSessionSurvives(loop) ==
    \E r \in BagToSet(Recs(loop)) :
        /\ r.held
        /\ r.st \in {"starting", "active"}
        /\ \A q \in BagToSet(Recs(loop)) : q # r => q.st = "stopping"
        /\ {r, unhold(r)} \cap BagToSet(Recs(loop)') # {}

UtteranceHandle(loop) == IF loop = "checkin" THEN checkinUtterance ELSE 0

\* C35: the end or error event of a stopped recognition session leaves
\* isListening and the recognition handle of the loop as they are when a
\* newer session of the loop is running, and the end or error event of a
\* cancelled utterance leaves isSpeaking and the utterance handle as they are
\* when a newer utterance of the loop is in the engine.
C35_LateCallbackLeavesNewerJob ==
    [][\A loop \in Loops :
          /\ (/\ last'.op \in {RecEndOp(loop), RecErrorOp(loop)}
              /\ NewerSessionSurvives(loop))
                => /\ LoopState(loop)'.isListening = LoopState(loop).isListening
                   /\ Handle(loop)' = Handle(loop)
          /\ (/\ last'.op \in {"UtteranceCancelledEnd", "UtteranceCancelledError"}
              /\ last'.arg = loop
              /\ LoopUtterances(loop) # << >>)
                => /\ LoopState(loop)'.isSpeaking = LoopState(loop).isSpeaking
                   /\ UtteranceHandle(loop)' = UtteranceHandle(loop)]_vars

\* the bubble appended last to the log of the loop
LastBubble(loop) == Messages(loop)[Len(Messages(loop))]

\* the handler that ran last sent the input field, and the field held the
\* final transcript of the stopped session r, which ends now
SentByHand(loop, r) ==
    /\ last.op \in FieldSendOps(loop)
    /\ r.st = "stopping"
    /\ Trim(r.finalTranscript) # << >>
    /\ Submitting(loop)
    /\ Messages(loop) # << >>
    /\ LastBubble(loop) = [role |-> "user", text |-> Trim(r.finalTranscript)]

\* C36: when the input field that holds the final transcript of a listening
\* session has been sent by hand, which stopped the session, the end event of
\* that session schedules no submission of the transcript.
C36_TranscriptSubmittedOnce ==
    [][\A loop \in Loops :
          (/\ last'.op = RecEndOp(loop)
           /\ \E r \in Ended(loop) : SentByHand(loop, r))
             => timers'[loop].send = timers[loop].send]_vars

\* C37: in the check-in loop, in every state between two handlers,
\* checkinState.isSpeaking is true exactly when checkinUtterance is not null,
\* and checkinState.isListening is true exactly when checkinRec is not null.
C37_FlagsMatchHandles ==
    /\ checkinState.isSpeaking <=> checkinUtterance # 0
    /\ checkinState.isListening <=> checkinRec # 0

\* a mic tap has cut the greeting short: the utterance handle and isSpeaking
\* are cleared, the recognizer is held and isListening is set
C37_Witness ==
    /\ last.op = "ToggleCheckinVoice"
    /\ speechSynthesis.cancelled.checkin > 0
    /\ ~checkinState.isSpeaking
    /\ checkinUtterance = 0
    /\ checkinState.isListening
    /\ checkinRec = 1

ClickOp(loop) == IF loop = "checkin" THEN "ClickCheckinSend" ELSE "ClickBookingSend"

\* texts that are empty after trimming
BlankTexts == {<< >>, Blank, Blank \o Blank}

\* the step leaves the log, the requests, the flags, the sessions, the engine,
\* the indicator, the controls and the input field of the loop as they are
Untouched(loop) ==
    /\ Messages(loop)' = Messages(loop)
    /\ fetches' = fetches
    /\ LoopState(loop)' = LoopState(loop)
    /\ Handle(loop)' = Handle(loop)
    /\ Recs(loop)' = Recs(loop)
    /\ speechSynthesis' = speechSynthesis
    /\ Indicator(loop)' = Indicator(loop)
    /\ checkinBtnDisabled' = checkinBtnDisabled
    /\ Input(loop)' = Input(loop)

\* C38: the send function of a loop, called with a text that is empty after
\* trimming or while the loop has no session id, returns the state it was
\* called in; and the step of a Send click or of the automatic-submission
\* timer that calls it so (for check-in also after backToCheckinSetup has
\* cleared the session id) appends nothing, requests nothing and changes no
\* flag and no control of the loop.
C38_SendWithoutTextOrSessionIsNoOp ==
    [][/\ \A text \in BlankTexts :
             /\ sendCheckinMessage(Cur, TRUE, text) = Cur
             /\ sendBookingMessage(Cur, TRUE, text) = Cur
       /\ checkinState.sessionId = 0
             => sendCheckinMessage(Cur, TRUE, Typed) = Cur
       /\ bookingState.bookingSessionId = 0
             => sendBookingMessage(Cur, TRUE, Typed) = Cur
       /\ \A loop \in Loops :
             /\ (/\ last'.op = ClickOp(loop)
                 /\ (Trim(Input(loop)) = << >> \/ SessionId(loop) = 0))
                   => Untouched(loop)
             /\ (/\ last'.op = SendTimerOp(loop)
                 /\ SessionId(loop) = 0)
                   => Untouched(loop)]_vars

\* the automatic-submission timer has fired on the set-up form, after
\* backToCheckinSetup cleared the session id: nothing was appended or
\* requested
C38_Witness ==
    /\ last.op = "CheckinSendTimer"
    /\ checkinState.sessionId = 0
    /\ checkinStep = "setup"
    /\ checkinMessages = <<[role |-> "assistant", text |-> Greeting]>>
    /\ fetches.checkinMsg = 0
    /\ ~checkinBtnDisabled

\* C39: in the check-in loop, in every state in which no message request
\* awaits its reply, btn-checkin-send and btn-send-to-doctor are enabled; and
\* every step that completes a request, by a reply or by a failure, leaves
\* them enabled.
C39_ControlsEnabledWhenSettled ==
    /\ fetches.checkinMsg = 0 => ~checkinBtnDisabled
    /\ last.op = "SendCheckinMessageReply" => ~checkinBtnDisabled

\* a message request has failed and none is pending: the apology is in the
\* log and the controls are enabled
C39_Witness ==
    /\ last.op = "SendCheckinMessageReply"
    /\ last.arg = "reject"
    /\ fetches.checkinMsg = 0
    /\ checkinMessages[Len(checkinMessages)]
           = [role |-> "assistant", text |-> CheckinApology]
    /\ ~checkinBtnDisabled

\* C40: in each loop at most one recognition session exists that has been
\* created and has neither been stopped nor ended.
C40_OneSessionAtATime ==
    \A loop \in Loops :
        /\ Cardinality(Running(Recs(loop))) <= 1
        /\ \A r \in Running(Recs(loop)) : CopiesIn(r, Recs(loop)) = 1

====
